---- MODULE Spec2Model ----
(***************************************************************************)
(* Model of the deterministic medical risk-scoring engine of               *)
(* backend/app/services/medical_algorithms.py: the RiskFactors normalizer, *)
(* the Framingham, ADA-diabetes and cancer calculators, the life-expectancy*)
(* calculator, the composite health score and the orchestrator             *)
(* MedicalAlgorithmFramework.comprehensive_risk_assessment.                *)
(*                                                                         *)
(* Numbers.  Python floats are modelled by exact fixed-point integers:     *)
(*   - body-mass index: a rational [n, d] with d > 0 (weight*10000/height^2)*)
(*   - heart risk: units of 1/10000 percent                                *)
(*   - diabetes risk: tenths of a percent                                  *)
(*   - cancer risk: units of 1/2000000 percent (the exact product of the   *)
(*     decimal multipliers of the code)                                    *)
(*   - life-expectancy figures: tenths of a year                           *)
(* math.exp and ** of the Framingham formula are computed in fixed point   *)
(* (four decimals); the result is within 0.03 percentage points of the     *)
(* float value.  Rounding errors of float arithmetic are not modelled: a   *)
(* body-mass index that is exactly a threshold (160 cm, 64 kg) is compared *)
(* exactly, and no input of this model lies on one.                        *)
(*                                                                         *)
(* Strings that the code transforms (lower, replace, substring tests) are  *)
(* sequences of one-character strings, so that the transformations are     *)
(* computed; fixed output texts are TLA+ strings.                          *)
(***************************************************************************)
EXTENDS Integers, Sequences, FiniteSets, TLC

(***************************************************************************)
(* Python values of the raw attributes mapping (user_data).                *)
(*   t = "absent": the key is missing; "None"; "int"; "str"; "list".       *)
(* Every value carries all fields so that values of different kinds can be *)
(* compared.  List items are values themselves, kept in field l.           *)
(***************************************************************************)
Absent == [t |-> "absent", n |-> 0, s |-> <<>>, l |-> <<>>]
NoneV == [t |-> "None", n |-> 0, s |-> <<>>, l |-> <<>>]
IntV(k) == [t |-> "int", n |-> k, s |-> <<>>, l |-> <<>>]
StrV(chars) == [t |-> "str", n |-> 0, s |-> chars, l |-> <<>>]
ListV(items) == [t |-> "list", n |-> 0, s |-> <<>>, l |-> items]
\* an item of a history list: a string or None
ItemStr(chars) == [t |-> "str", s |-> chars]
ItemNone == [t |-> "None", s |-> <<>>]

\* dict.get(key, default): the default only when the key is missing
get(user_data, key, default) ==
    IF user_data[key].t = "absent" THEN default ELSE user_data[key]

\* Python truthiness of a value
Truthy(v) ==
    CASE v.t = "absent" -> FALSE
      [] v.t = "None" -> FALSE
      [] v.t = "int" -> v.n # 0
      [] v.t = "str" -> Len(v.s) > 0
      [] v.t = "list" -> Len(v.l) > 0

(***************************************************************************)
(* str methods                                                             *)
(***************************************************************************)
UpperChars == <<"A", "B", "C", "D", "E", "F", "G", "H", "I", "J", "K", "L", "M",
                "N", "O", "P", "Q", "R", "S", "T", "U", "V", "W", "X", "Y", "Z">>
LowerChars == <<"a", "b", "c", "d", "e", "f", "g", "h", "i", "j", "k", "l", "m",
                "n", "o", "p", "q", "r", "s", "t", "u", "v", "w", "x", "y", "z">>

LowerChar(c) ==
    IF \E i \in 1..26 : UpperChars[i] = c
    THEN LowerChars[CHOOSE i \in 1..26 : UpperChars[i] = c]
    ELSE c

\* str.lower()
lower(s) == [i \in 1..Len(s) |-> LowerChar(s[i])]

\* str.replace(old, new) for one-character old and new
replace(s, old, new) == [i \in 1..Len(s) |-> IF s[i] = old THEN new ELSE s[i]]

\* sub in s
Contains(s, sub) ==
    \E i \in 0..(Len(s) - Len(sub)) :
        \A j \in 1..Len(sub) : s[i + j] = sub[j]

Digits == <<"0", "1", "2", "3", "4", "5", "6", "7", "8", "9">>
IsDigit(c) == \E i \in 1..10 : Digits[i] = c
DigitVal(c) == (CHOOSE i \in 1..10 : Digits[i] = c) - 1

RECURSIVE DigitsVal(_)
DigitsVal(s) ==
    IF Len(s) = 0 THEN 0
    ELSE 10 * DigitsVal(SubSeq(s, 1, Len(s) - 1)) + DigitVal(s[Len(s)])

\* The numeric literals the model reads: an optional minus sign and digits.
\* (Python accepts more: surrounding blanks, a decimal point, an exponent;
\* the inputs of this model use none of them.)
IsNumeric(s) ==
    LET body == IF Len(s) > 0 /\ s[1] = "-" THEN Tail(s) ELSE s
    IN  Len(body) > 0 /\ \A i \in 1..Len(body) : IsDigit(body[i])

ParseNum(s) ==
    IF s[1] = "-" THEN 0 - DigitsVal(Tail(s)) ELSE DigitsVal(s)

\* float(v) / int(v): the exception it raises, "none" when it converts
NumExc(v) ==
    CASE v.t = "int" -> "none"
      [] v.t = "str" -> IF IsNumeric(v.s) THEN "none" ELSE "ValueError"
      [] OTHER -> "TypeError"

NumVal(v) == IF v.t = "int" THEN v.n ELSE ParseNum(v.s)

\* v.lower(): only str has the method
LowerExc(v) == IF v.t = "str" THEN "none" ELSE "AttributeError"

\* the string constants of the code that the model compares with
Str ==
    [ male |-> <<"m", "a", "l", "e">>,
      female |-> <<"f", "e", "m", "a", "l", "e">>,
      caucasian |-> <<"c", "a", "u", "c", "a", "s", "i", "a", "n">>,
      heart |-> <<"h", "e", "a", "r", "t">>,
      cardiac |-> <<"c", "a", "r", "d", "i", "a", "c">>,
      diabetes |-> <<"d", "i", "a", "b", "e", "t", "e", "s">>,
      cancer |-> <<"c", "a", "n", "c", "e", "r">>,
      daily |-> <<"d", "a", "i", "l", "y">>,
      never |-> <<"n", "e", "v", "e", "r">>,
      rarely |-> <<"r", "a", "r", "e", "l", "y">>,
      occasionally |-> <<"o", "c", "c", "a", "s", "i", "o", "n", "a", "l", "l", "y">> ]

(***************************************************************************)
(* MedicalAlgorithmFramework._convert_to_risk_factors                      *)
(***************************************************************************)
\* body-mass index as a rational n/d, d > 0
DefaultBmi == [n |-> 25, d |-> 1]

\* lines 760-763
BmiExc(user_data) ==
    LET h == get(user_data, "height_cm", NoneV)
        w == get(user_data, "weight_kg", NoneV)
    IN  IF ~(Truthy(h) /\ Truthy(w)) THEN "none"
        ELSE IF NumExc(h) # "none" THEN NumExc(h)
        ELSE IF NumExc(w) # "none" THEN NumExc(w)
        ELSE IF NumVal(h) = 0 THEN "ZeroDivisionError"
        ELSE "none"

Bmi(user_data) ==
    LET h == get(user_data, "height_cm", NoneV)
        w == get(user_data, "weight_kg", NoneV)
    IN  IF Truthy(h) /\ Truthy(w)
        THEN [n |-> NumVal(w) * 10000, d |-> NumVal(h) * NumVal(h)]
        ELSE DefaultBmi

\* lines 766-769
TobaccoWords == { <<"y", "e", "s">>, <<"c", "u", "r", "r", "e", "n", "t">>,
                  Str.daily, Str.occasionally }
Smoking(user_data) ==
    lower(get(user_data, "tobacco_use", StrV(<<>>)).s) \in TobaccoWords

\* a lookup whose default is not one of the four levels
ExerciseMapUnknownDefault(key) ==
    CASE key = Str.never -> "none"
      [] key = Str.rarely -> "light"
      [] key = <<"1", "-", "2", " ", "t", "i", "m", "e", "s", " ", "p", "e", "r", " ", "w", "e", "e", "k">> -> "light"
      [] key = <<"3", "-", "4", " ", "t", "i", "m", "e", "s", " ", "p", "e", "r", " ", "w", "e", "e", "k">> -> "moderate"
      [] key = <<"5", "+", " ", "t", "i", "m", "e", "s", " ", "p", "e", "r", " ", "w", "e", "e", "k">> -> "heavy"
      [] key = Str.daily -> "heavy"
      [] OTHER -> "unknown"

\* lines 772-782
exercise_map(key) ==
    CASE key = Str.never -> "none"
      [] key = Str.rarely -> "light"
      [] key = <<"1", "-", "2", " ", "t", "i", "m", "e", "s", " ", "p", "e", "r", " ", "w", "e", "e", "k">> -> "light"
      [] key = <<"3", "-", "4", " ", "t", "i", "m", "e", "s", " ", "p", "e", "r", " ", "w", "e", "e", "k">> -> "moderate"
      [] key = <<"5", "+", " ", "t", "i", "m", "e", "s", " ", "p", "e", "r", " ", "w", "e", "e", "k">> -> "heavy"
      [] key = Str.daily -> "heavy"
      [] OTHER -> "moderate"
ExerciseFreq(user_data) ==
    exercise_map(lower(get(user_data, "exercise_frequency", StrV(<<>>)).s))

\* lines 785-795
alcohol_map(key) ==
    CASE key = Str.never -> "none"
      [] key = Str.rarely -> "light"
      [] key = Str.occasionally -> "light"
      [] key = <<"w", "e", "e", "k", "l", "y">> -> "moderate"
      [] key = Str.daily -> "heavy"
      [] key = <<"m", "u", "l", "t", "i", "p", "l", "e", " ", "t", "i", "m", "e", "s", " ", "d", "a", "i", "l", "y">> -> "heavy"
      [] OTHER -> "moderate"
AlcoholCons(user_data) ==
    alcohol_map(lower(get(user_data, "alcohol_consumption", StrV(<<>>)).s))

\* The list a history field is iterated as: a str is wrapped (lines 799-800,
\* 809-810); iterating a str item by item is not reached.
HistoryItems(v) == IF v.t = "str" THEN <<ItemStr(v.s)>> ELSE v.l

\* any(<words> in item.lower() for item in items): "true", "false", or
\* "raise" when an item without lower() is met before a match
RECURSIVE AnyContains(_, _)
AnyContains(items, words) ==
    IF Len(items) = 0 THEN "false"
    ELSE IF Head(items).t # "str" THEN "raise"
    ELSE IF \E w \in words : Contains(lower(Head(items).s), w) THEN "true"
    ELSE AnyContains(Tail(items), words)

\* lines 798-805 and 808-812: the exception of the history scans
HistoryExc(v, wordsets) ==
    IF v.t \in {"None", "int"} THEN "TypeError"
    ELSE IF \E i \in 1..Len(wordsets) :
                AnyContains(HistoryItems(v), wordsets[i]) = "raise"
         THEN "AttributeError"
         ELSE "none"

FamilyWordsets == << {Str.heart, Str.cardiac}, {Str.diabetes}, {Str.cancer} >>

\* The first exception the normalizer raises, in statement order; "none"
\* when it returns.
ConvertExc(user_data) ==
    LET fh == get(user_data, "family_history", ListV(<<>>))
        pd == get(user_data, "past_diagnoses", ListV(<<>>))
        chain == << BmiExc(user_data),
                    LowerExc(get(user_data, "tobacco_use", StrV(<<>>))),
                    LowerExc(get(user_data, "exercise_frequency", StrV(<<>>))),
                    LowerExc(get(user_data, "alcohol_consumption", StrV(<<>>))),
                    HistoryExc(fh, FamilyWordsets),
                    HistoryExc(pd, << {Str.diabetes} >>),
                    NumExc(get(user_data, "age", IntV(35))),
                    LowerExc(get(user_data, "sex", StrV(Str.male))) >>
    IN  IF \A i \in 1..Len(chain) : chain[i] = "none" THEN "none"
        ELSE chain[CHOOSE i \in 1..Len(chain) :
                     chain[i] # "none" /\ \A j \in 1..(i - 1) : chain[j] = "none"]

\* The RiskFactors value returned when nothing is raised (lines 814-829)
_convert_to_risk_factors(user_data) ==
    LET fh == HistoryItems(get(user_data, "family_history", ListV(<<>>)))
        pd == HistoryItems(get(user_data, "past_diagnoses", ListV(<<>>)))
    IN  [ age |-> NumVal(get(user_data, "age", IntV(35))),
          sex |-> lower(get(user_data, "sex", StrV(Str.male)).s),
          ethnicity |-> get(user_data, "ethnicity", StrV(Str.caucasian)),
          bmi |-> Bmi(user_data),
          systolic_bp |-> get(user_data, "systolic_bp", NoneV),
          total_cholesterol |-> get(user_data, "total_cholesterol", NoneV),
          hdl_cholesterol |-> get(user_data, "hdl_cholesterol", NoneV),
          smoking |-> Smoking(user_data),
          diabetes |-> AnyContains(pd, {Str.diabetes}) = "true",
          family_history_cvd |-> AnyContains(fh, {Str.heart, Str.cardiac}) = "true",
          family_history_diabetes |-> AnyContains(fh, {Str.diabetes}) = "true",
          family_history_cancer |-> AnyContains(fh, {Str.cancer}) = "true",
          exercise_frequency |-> ExerciseFreq(user_data),
          alcohol_consumption |-> AlcoholCons(user_data) ]

(***************************************************************************)
(* Arithmetic helpers                                                      *)
(***************************************************************************)
Min(a, b) == IF a < b THEN a ELSE b
Max(a, b) == IF a > b THEN a ELSE b

\* int(x) of Python for x = n/d, d > 0: truncation toward zero
TruncDiv(n, d) == IF n >= 0 THEN n \div d ELSE 0 - ((0 - n) \div d)

\* round-half-even of p/q to an integer, p >= 0, q > 0 (format spec .0f)
RoundHalfEven(p, q) ==
    LET fl == p \div q
        r2 == 2 * (p - fl * q)
    IN  IF r2 > q \/ (r2 = q /\ fl % 2 = 1) THEN fl + 1 ELSE fl

\* comparisons of a body-mass index n/d with a threshold given in tenths
BmiGE(bmi, t10) == bmi.n * 10 >= t10 * bmi.d
BmiGT(bmi, t10) == bmi.n * 10 > t10 * bmi.d
BmiLT(bmi, t10) == bmi.n * 10 < t10 * bmi.d
BmiLE(bmi, t10) == bmi.n * 10 <= t10 * bmi.d

\* A risk is a rational [n, d] percent; d is a multiple of 10.  The
\* threshold t10 (tenths of a percent) in units of 1/d:
Thr(risk, t10) == (t10 * risk.d) \div 10
RiskLT(risk, t10) == risk.n < Thr(risk, t10)
RiskGT(risk, t10) == risk.n > Thr(risk, t10)
\* min(risk, cap)
RiskMin(risk, cap10) == [n |-> Min(risk.n, Thr(risk, cap10)), d |-> risk.d]

\* fixed-point numbers with four decimals
FScale == 10000
\* a * b / FScale without leaving 32 bits (b < 200000)
FMul(a, b) == (a \div FScale) * b + ((a % FScale) * b) \div FScale

\* exp(f / FScale) * FScale for 0 <= f < FScale: Taylor series, nine terms
RECURSIVE ExpTerms(_, _, _)
ExpTerms(f, k, term) ==
    IF k > 8 THEN 0
    ELSE LET next == (term * f) \div (k * FScale)
         IN  next + ExpTerms(f, k + 1, next)
ExpFrac(f) == FScale + ExpTerms(f, 1, FScale)

\* ExpInt[n] = exp(n) * FScale for n = 1..11
ExpInt == << 27183, 73891, 200855, 545982, 1484132, 4034288, 10966332,
             29809580, 81030839, 220264658, 598741417 >>
\* exp(z / FScale) * FScale for 0 <= z < 12 * FScale
ExpPos(z) ==
    LET n == z \div FScale
        f == z % FScale
    IN  IF n = 0 THEN ExpFrac(f) ELSE FMul(ExpInt[n], ExpFrac(f))
\* exp(y / FScale) * FScale for -12 * FScale < y < 12 * FScale
ExpFix(y) == IF y >= 0 THEN ExpPos(y) ELSE (FScale * FScale) \div ExpPos(0 - y)

(***************************************************************************)
(* FraminghamRiskCalculator                                                *)
(***************************************************************************)
\* `value or estimate` for an optional lab value (lines 100-102)
LabOr(v, estimate) == IF Truthy(v) THEN v.n ELSE estimate
\* a lab value that is given but is no number fails in the arithmetic
LabExc(v) == IF Truthy(v) /\ v.t # "int" THEN "TypeError" ELSE "none"

_estimate_cholesterol(factors) ==
    180 + (IF factors.age > 50 THEN 20 ELSE 0)
        + (IF factors.sex = Str.male THEN 10 ELSE 0)
        + (IF BmiGT(factors.bmi, 300) THEN 15 ELSE 0)
        + (IF factors.exercise_frequency = "none" THEN 10 ELSE 0)

_estimate_hdl(factors) ==
    Max( (IF factors.sex = Str.female THEN 50 ELSE 40)
           + (IF factors.exercise_frequency = "heavy" THEN 10
              ELSE IF factors.exercise_frequency = "moderate" THEN 5 ELSE 0)
           - (IF BmiGT(factors.bmi, 300) THEN 5 ELSE 0)
           - (IF factors.smoking THEN 5 ELSE 0),
         20 )

\* int(120 + (age - 50) * 0.5 + ...): the sum is positive, int() floors it
_estimate_bp(factors) ==
    120 + (IF factors.age > 50 THEN (factors.age - 50) \div 2 ELSE 0)
        + (IF BmiGT(factors.bmi, 300) THEN 10 ELSE 0)
        + (IF factors.smoking THEN 5 ELSE 0)

\* The coefficient tables (lines 54-93), coefficients in units of 1e-5.
\* Indexing a table with a sex that is no key raises KeyError.
SexKeys == {Str.male, Str.female}
AGE_COEFFS(sex) == IF sex = Str.male THEN [coeff |-> 306117, mean |-> 61]
                   ELSE [coeff |-> 232888, mean |-> 61]
CHOL_COEFFS(sex) == IF sex = Str.male THEN [coeff |-> 112370, mean |-> 180]
                    ELSE [coeff |-> 120904, mean |-> 180]
HDL_COEFFS(sex) == IF sex = Str.male THEN [coeff |-> 0 - 93263, mean |-> 46]
                   ELSE [coeff |-> 0 - 70833, mean |-> 55]
SBP_COEFFS(sex) == IF sex = Str.male THEN [untreated |-> 193303, mean |-> 125]
                   ELSE [untreated |-> 276157, mean |-> 125]
SMOKING_COEFFS(sex) == IF sex = Str.male THEN 65451 ELSE 52873
DIABETES_COEFFS(sex) == IF sex = Str.male THEN 57367 ELSE 69154
\* ln(-ln(BASELINE_SURVIVAL[sex])) in units of 1e-5:
\* ln(-ln 0.88936) = -2.14342, ln(-ln 0.95012) = -2.97266
LogHazard(sex) == IF sex = Str.male THEN 0 - 214342 ELSE 0 - 297266

\* total_score (line 126) in units of 1e-5
TotalScore(factors) ==
    LET sex == lower(factors.sex)
        total_chol == LabOr(factors.total_cholesterol, _estimate_cholesterol(factors))
        hdl_chol == LabOr(factors.hdl_cholesterol, _estimate_hdl(factors))
        systolic_bp == LabOr(factors.systolic_bp, _estimate_bp(factors))
    IN  AGE_COEFFS(sex).coeff * (factors.age - AGE_COEFFS(sex).mean)
        + CHOL_COEFFS(sex).coeff * (total_chol - CHOL_COEFFS(sex).mean)
        + HDL_COEFFS(sex).coeff * (hdl_chol - HDL_COEFFS(sex).mean)
        + SBP_COEFFS(sex).untreated * (systolic_bp - SBP_COEFFS(sex).mean)
        + (IF factors.smoking THEN SMOKING_COEFFS(sex) ELSE 0)
        + (IF factors.diabetes THEN DIABETES_COEFFS(sex) ELSE 0)

\* math.exp raises OverflowError above 709.782712893384
ExpOverflows(score) == score > 70978271

\* (1 - baseline_survival ** math.exp(total_score)) * 100 in hundredths of a
\* percent (lines 129-131): 1 - exp(-u) with u = exp(total_score + LogHazard).
\* Below u = exp(-12) the result is under 0.001 percent, above u = 12 over
\* 99.999 percent.
SurvivalRisk(score, sex) ==
    LET y == (score + LogHazard(sex)) \div 10
    IN  IF y <= 0 - 12 * FScale THEN 0
        ELSE IF y >= 24849 THEN FScale
        ELSE FScale - (FScale * FScale) \div ExpPos(ExpFix(y))

\* ethnicity.lower().replace(' ', '_')
EthnicityKey(ethnicity) == replace(lower(ethnicity.s), " ", "_")

\* the multiplier in hundredths (lines 187-196)
HeartEthnicityMultiplier(ethnicity, sex) ==
    LET key == EthnicityKey(ethnicity)
    IN  CASE key = <<"a", "f", "r", "i", "c", "a", "n", "_", "a", "m", "e", "r", "i", "c", "a", "n">>
               -> IF sex = Str.male THEN 115 ELSE 120
          [] key = <<"h", "i", "s", "p", "a", "n", "i", "c">> -> 90
          [] key = <<"a", "s", "i", "a", "n">> -> 85
          [] key = <<"n", "a", "t", "i", "v", "e", "_", "a", "m", "e", "r", "i", "c", "a", "n">> -> 125
          [] key = Str.caucasian -> 100
          [] OTHER -> 100

\* risk in hundredths of a percent -> [n, d] with d = 10000
_apply_ethnicity_adjustment(risk, ethnicity, sex) ==
    [n |-> risk * HeartEthnicityMultiplier(ethnicity, sex), d |-> 100 * 100]

\* _categorize_risk handed the probability (0..1) in place of the percentage
CategorizeRiskOfFraction(risk) ==
    IF risk.n * 10 < 75 * risk.d * 100 THEN "Low"
    ELSE IF risk.n * 10 < 200 * risk.d * 100 THEN "Medium"
    ELSE "High"

\* _categorize_risk with `<=` in place of `<`
CategorizeRiskInclusive(risk) ==
    IF risk.n <= Thr(risk, 75) THEN "Low"
    ELSE IF risk.n <= Thr(risk, 200) THEN "Medium"
    ELSE "High"

_categorize_risk(risk) ==
    IF RiskLT(risk, 75) THEN "Low"
    ELSE IF RiskLT(risk, 200) THEN "Medium"
    ELSE "High"

\* the elements of seq at the indices where keep holds, in order
RECURSIVE SelectIdx(_, _, _)
SelectIdx(seq, keep, i) ==
    IF i > Len(seq) THEN <<>>
    ELSE (IF keep[i] THEN <<seq[i]>> ELSE <<>>) \o SelectIdx(seq, keep, i + 1)

\* a slice [:k] that is left out
TakeAll(seq, k) == seq

\* seq[:k]
Take(seq, k) == SubSeq(seq, 1, Min(k, Len(seq)))

\* the key factors with the family history ahead of the lab values
IdentifyKeyFactorsFamilyFirst(factors, total_chol, hdl_chol, systolic_bp) ==
    Take(SelectIdx(
        << "Advanced age", "Smoking", "Diabetes", "Family history",
           "High cholesterol", "Low HDL cholesterol", "High blood pressure",
           "Obesity", "Sedentary lifestyle" >>,
        << factors.age > 65, factors.smoking, factors.diabetes,
           factors.family_history_cvd, total_chol > 240,
           hdl_chol < 40, systolic_bp > 140, BmiGT(factors.bmi, 300),
           factors.exercise_frequency = "none" >>,
        1), 5)

_identify_key_factors(factors, total_chol, hdl_chol, systolic_bp) ==
    Take(SelectIdx(
        << "Advanced age", "Smoking", "Diabetes", "High cholesterol",
           "Low HDL cholesterol", "High blood pressure", "Obesity",
           "Family history", "Sedentary lifestyle" >>,
        << factors.age > 65, factors.smoking, factors.diabetes, total_chol > 240,
           hdl_chol < 40, systolic_bp > 140, BmiGT(factors.bmi, 300),
           factors.family_history_cvd, factors.exercise_frequency = "none" >>,
        1), 5)

\* A recommendation: its text, and the number formatted into it (0 when the
\* text has no placeholder).
Rec(text) == [text |-> text, arg |-> 0]
RecArg(text, arg) == [text |-> text, arg |-> arg]
InSeq(x, seq) == \E i \in 1..Len(seq) : seq[i] = x

\* the recommendations cut after six entries
GenerateRecommendationsCapSix(factors, risk, key_factors) ==
    Take(SelectIdx(
        << Rec("Quit smoking - reduces CVD risk by 50% within 1 year"),
           Rec("Achieve healthy weight (BMI 18.5-24.9) through diet and exercise"),
           Rec("Engage in 150 minutes of moderate aerobic activity weekly"),
           Rec("Follow heart-healthy diet, consider statin therapy consultation"),
           Rec("Monitor blood pressure regularly, reduce sodium intake"),
           Rec("Consult cardiologist for comprehensive cardiovascular evaluation"),
           Rec("Discuss aspirin therapy and statin use with your physician"),
           Rec("Follow Mediterranean or DASH diet pattern"),
           Rec("Limit alcohol consumption to moderate levels"),
           Rec("Manage stress through relaxation techniques"),
           Rec("Get adequate sleep (7-9 hours nightly)"),
           Rec("Schedule regular health screenings") >>,
        << factors.smoking,
           BmiGT(factors.bmi, 300),
           factors.exercise_frequency \in {"none", "light"},
           InSeq("High cholesterol", key_factors),
           InSeq("High blood pressure", key_factors),
           RiskGT(risk, 200),
           ~RiskGT(risk, 200) /\ RiskGT(risk, 75),
           TRUE, TRUE, TRUE, TRUE, TRUE >>,
        1), 6)

_generate_recommendations(factors, risk, key_factors) ==
    Take(SelectIdx(
        << Rec("Quit smoking - reduces CVD risk by 50% within 1 year"),
           Rec("Achieve healthy weight (BMI 18.5-24.9) through diet and exercise"),
           Rec("Engage in 150 minutes of moderate aerobic activity weekly"),
           Rec("Follow heart-healthy diet, consider statin therapy consultation"),
           Rec("Monitor blood pressure regularly, reduce sodium intake"),
           Rec("Consult cardiologist for comprehensive cardiovascular evaluation"),
           Rec("Discuss aspirin therapy and statin use with your physician"),
           Rec("Follow Mediterranean or DASH diet pattern"),
           Rec("Limit alcohol consumption to moderate levels"),
           Rec("Manage stress through relaxation techniques"),
           Rec("Get adequate sleep (7-9 hours nightly)"),
           Rec("Schedule regular health screenings") >>,
        << factors.smoking,
           BmiGT(factors.bmi, 300),
           factors.exercise_frequency \in {"none", "light"},
           InSeq("High cholesterol", key_factors),
           InSeq("High blood pressure", key_factors),
           RiskGT(risk, 200),
           ~RiskGT(risk, 200) /\ RiskGT(risk, 75),
           TRUE, TRUE, TRUE, TRUE, TRUE >>,
        1), 8)

\* The exception FraminghamRiskCalculator.calculate_risk raises, in statement
\* order; "none" when it returns.
HeartExc(factors) ==
    IF lower(factors.sex) \notin SexKeys THEN "KeyError"
    ELSE IF LabExc(factors.total_cholesterol) # "none" THEN "TypeError"
    ELSE IF LabExc(factors.hdl_cholesterol) # "none" THEN "TypeError"
    ELSE IF LabExc(factors.systolic_bp) # "none" THEN "TypeError"
    ELSE IF ExpOverflows(TotalScore(factors)) THEN "OverflowError"
    ELSE LowerExc(factors.ethnicity)

HeartCalculateRisk(factors) ==
    LET sex == lower(factors.sex)
        total_chol == LabOr(factors.total_cholesterol, _estimate_cholesterol(factors))
        hdl_chol == LabOr(factors.hdl_cholesterol, _estimate_hdl(factors))
        systolic_bp == LabOr(factors.systolic_bp, _estimate_bp(factors))
        ten_year_risk == _apply_ethnicity_adjustment(
                             SurvivalRisk(TotalScore(factors), sex),
                             factors.ethnicity, sex)
        key_factors == _identify_key_factors(factors, total_chol, hdl_chol, systolic_bp)
    IN  [ disease |-> "Heart Disease",
          ten_year_risk |-> RiskMin(ten_year_risk, 1000),
          risk_category |-> _categorize_risk(ten_year_risk),
          confidence |-> 89,
          algorithm_used |-> "Framingham Risk Score (2008)",
          key_risk_factors |-> key_factors,
          recommendations |-> _generate_recommendations(factors, ten_year_risk, key_factors) ]

(***************************************************************************)
(* ADADiabetesRiskCalculator                                               *)
(***************************************************************************)
_get_ethnicity_risk(ethnicity) ==
    IF EthnicityKey(ethnicity) \in
         { <<"a", "f", "r", "i", "c", "a", "n", "_", "a", "m", "e", "r", "i", "c", "a", "n">>,
           <<"h", "i", "s", "p", "a", "n", "i", "c">>,
           <<"n", "a", "t", "i", "v", "e", "_", "a", "m", "e", "r", "i", "c", "a", "n">>,
           <<"a", "s", "i", "a", "n">>,
           <<"p", "a", "c", "i", "f", "i", "c", "_", "i", "s", "l", "a", "n", "d", "e", "r">> }
    THEN 2 ELSE 0

\* factors.systolic_bp and factors.systolic_bp > 140
HighMeasuredBp(factors) == Truthy(factors.systolic_bp) /\ factors.systolic_bp.n > 140

\* the point score without the point for smoking
DiabetesRiskScoreNoSmoking(factors) ==
      (IF factors.age >= 65 THEN 3
       ELSE IF factors.age >= 45 THEN 2
       ELSE IF factors.age >= 35 THEN 1 ELSE 0)
    + (IF BmiGE(factors.bmi, 350) THEN 3
       ELSE IF BmiGE(factors.bmi, 300) THEN 2
       ELSE IF BmiGE(factors.bmi, 250) THEN 1 ELSE 0)
    + (IF factors.family_history_diabetes THEN 3 ELSE 0)
    + _get_ethnicity_risk(factors.ethnicity)
    + (IF factors.exercise_frequency = "none" THEN 2
       ELSE IF factors.exercise_frequency = "light" THEN 1 ELSE 0)
    + (IF HighMeasuredBp(factors) THEN 1 ELSE 0)

\* risk_score of lines 270-295
DiabetesRiskScore(factors) ==
      (IF factors.age >= 65 THEN 3
       ELSE IF factors.age >= 45 THEN 2
       ELSE IF factors.age >= 35 THEN 1 ELSE 0)
    + (IF BmiGE(factors.bmi, 350) THEN 3
       ELSE IF BmiGE(factors.bmi, 300) THEN 2
       ELSE IF BmiGE(factors.bmi, 250) THEN 1 ELSE 0)
    + (IF factors.family_history_diabetes THEN 3 ELSE 0)
    + _get_ethnicity_risk(factors.ethnicity)
    + (IF factors.exercise_frequency = "none" THEN 2
       ELSE IF factors.exercise_frequency = "light" THEN 1 ELSE 0)
    + (IF factors.smoking THEN 1 ELSE 0)
    + (IF HighMeasuredBp(factors) THEN 1 ELSE 0)

\* risk_table, percent, for the scores 0..14 (lines 334-337)
risk_table == << 1, 2, 3, 5, 8, 12, 18, 25, 33, 42, 52, 62, 72, 80, 85 >>

\* the percentage without the clamp to 90
ScoreToPercentageNoClamp(score, sex) ==
    LET base_risk == risk_table[Min(score, 14) + 1]
    IN  [n |-> IF lower(sex) = Str.male THEN base_risk * 11 ELSE base_risk * 10,
         d |-> 10]

\* the risk in tenths of a percent: base_risk * 1.1 for male, min(.., 90)
_score_to_percentage(score, sex) ==
    LET base_risk == risk_table[Min(score, 14) + 1]
    IN  RiskMin([n |-> IF lower(sex) = Str.male THEN base_risk * 11 ELSE base_risk * 10,
                 d |-> 10], 900)

_categorize_diabetes_risk(risk) ==
    IF RiskLT(risk, 100) THEN "Low"
    ELSE IF RiskLT(risk, 250) THEN "Medium"
    ELSE "High"

_identify_diabetes_factors(factors, score) ==
    Take(SelectIdx(
        << "Obesity", "Age", "Family history", "Physical inactivity",
           "High-risk ethnicity", "High blood pressure" >>,
        << BmiGE(factors.bmi, 300), factors.age >= 45, factors.family_history_diabetes,
           factors.exercise_frequency = "none",
           lower(factors.ethnicity.s) \in
              { <<"a", "f", "r", "i", "c", "a", "n", " ", "a", "m", "e", "r", "i", "c", "a", "n">>,
                <<"h", "i", "s", "p", "a", "n", "i", "c">>,
                <<"a", "s", "i", "a", "n">> },
           HighMeasuredBp(factors) >>,
        1), 5)

\* f"{min(10, (bmi - 24.9) * 2.2):.0f}" for bmi >= 25
WeightLossPounds(bmi) ==
    Min(10, RoundHalfEven((10 * bmi.n - 249 * bmi.d) * 11, 50 * bmi.d))

_generate_diabetes_recommendations(factors, risk) ==
    Take(SelectIdx(
        << RecArg("Lose {weight_loss:.0f}+ pounds through diet and exercise",
                  IF BmiGE(factors.bmi, 250) THEN WeightLossPounds(factors.bmi) ELSE 0),
           Rec("Aim for 150 minutes of moderate exercise weekly"),
           Rec("Follow a low-glycemic, high-fiber diet"),
           Rec("Limit refined carbohydrates and added sugars"),
           Rec("Monitor blood glucose levels regularly"),
           Rec("Discuss metformin therapy with your physician"),
           Rec("Consider diabetes prevention program enrollment"),
           Rec("Maintain healthy sleep patterns (7-9 hours)"),
           Rec("Manage stress through mindfulness or counseling"),
           Rec("Get annual diabetes screening tests") >>,
        << BmiGE(factors.bmi, 250),
           factors.exercise_frequency \in {"none", "light"},
           TRUE, TRUE, TRUE,
           RiskGT(risk, 250), RiskGT(risk, 250),
           TRUE, TRUE, TRUE >>,
        1), 8)

DiabetesExc(factors) ==
    IF LowerExc(factors.ethnicity) # "none" THEN "AttributeError"
    ELSE LabExc(factors.systolic_bp)

DiabetesCalculateRisk(factors) ==
    LET risk_score == DiabetesRiskScore(factors)
        ten_year_risk == _score_to_percentage(risk_score, factors.sex)
    IN  [ disease |-> "Type 2 Diabetes",
          ten_year_risk |-> ten_year_risk,
          risk_category |-> _categorize_diabetes_risk(ten_year_risk),
          confidence |-> 92,
          algorithm_used |-> "ADA Diabetes Risk Calculator",
          key_risk_factors |-> _identify_diabetes_factors(factors, risk_score),
          recommendations |-> _generate_diabetes_recommendations(factors, ten_year_risk) ]

(***************************************************************************)
(* CancerRiskCalculator                                                    *)
(***************************************************************************)
\* the baseline with the low default for every age outside the bands
BaseCancerRiskLowDefault(age, sex) ==
    LET male_risks == << 5, 12, 38, 87, 162, 251, 328 >>
        female_risks == << 6, 18, 42, 79, 136, 214, 289 >>
        risks == IF lower(sex) = Str.male THEN male_risks ELSE female_risks
    IN  IF \E i \in 1..7 : 10 + 10 * i <= age /\ age < 20 + 10 * i
        THEN risks[CHOOSE i \in 1..7 : 10 + 10 * i <= age /\ age < 20 + 10 * i]
        ELSE 5

\* baseline risk in tenths of a percent (lines 475-491)
_get_base_cancer_risk(age, sex) ==
    LET male_risks == << 5, 12, 38, 87, 162, 251, 328 >>
        female_risks == << 6, 18, 42, 79, 136, 214, 289 >>
        risks == IF lower(sex) = Str.male THEN male_risks ELSE female_risks
    IN  IF \E i \in 1..7 : 10 + 10 * i <= age /\ age < 20 + 10 * i
        THEN risks[CHOOSE i \in 1..7 : 10 + 10 * i <= age /\ age < 20 + 10 * i]
        ELSE IF age >= 80 THEN 350 ELSE 5

\* the multiplier without the factor 2.5 for smoking
CancerMultiplierNoSmoking(factors) ==
      2
    * (IF factors.family_history_cancer THEN 9 ELSE 5)
    * (IF factors.alcohol_consumption = "heavy" THEN 14
       ELSE IF factors.alcohol_consumption = "moderate" THEN 11 ELSE 10)
    * (IF BmiGE(factors.bmi, 350) THEN 26
       ELSE IF BmiGE(factors.bmi, 300) THEN 23 ELSE 20)
    * (IF factors.exercise_frequency = "heavy" THEN 8
       ELSE IF factors.exercise_frequency = "moderate" THEN 9
       ELSE IF factors.exercise_frequency = "none" THEN 12 ELSE 10)

\* risk_multiplier of lines 415-443 as a fraction num/200000 * 10: the
\* factors 2.5, 1.8, 1.4/1.1, 1.3/1.15, 0.8/0.9/1.2 over the denominators
\* 2, 5, 10, 20, 10
CancerMultiplier(factors) ==
      (IF factors.smoking THEN 5 ELSE 2)
    * (IF factors.family_history_cancer THEN 9 ELSE 5)
    * (IF factors.alcohol_consumption = "heavy" THEN 14
       ELSE IF factors.alcohol_consumption = "moderate" THEN 11 ELSE 10)
    * (IF BmiGE(factors.bmi, 350) THEN 26
       ELSE IF BmiGE(factors.bmi, 300) THEN 23 ELSE 20)
    * (IF factors.exercise_frequency = "heavy" THEN 8
       ELSE IF factors.exercise_frequency = "moderate" THEN 9
       ELSE IF factors.exercise_frequency = "none" THEN 12 ELSE 10)

\* the multiplier in tenths (lines 496-505)
CancerEthnicityMultiplier(ethnicity) ==
    LET key == EthnicityKey(ethnicity)
    IN  CASE key = <<"a", "f", "r", "i", "c", "a", "n", "_", "a", "m", "e", "r", "i", "c", "a", "n">> -> 11
          [] key = Str.caucasian -> 10
          [] key = <<"h", "i", "s", "p", "a", "n", "i", "c">> -> 9
          [] key = <<"a", "s", "i", "a", "n">> -> 8
          [] key = <<"n", "a", "t", "i", "v", "e", "_", "a", "m", "e", "r", "i", "c", "a", "n">> -> 12
          [] OTHER -> 10

\* risk [n, d] -> [n * multiplier, d * 10]
_apply_cancer_ethnicity_adjustment(risk, ethnicity) ==
    [n |-> risk.n * CancerEthnicityMultiplier(ethnicity), d |-> risk.d * 10]

_categorize_cancer_risk(risk) ==
    IF RiskLT(risk, 50) THEN "Low"
    ELSE IF RiskLT(risk, 150) THEN "Medium"
    ELSE "High"

_identify_cancer_factors(factors) ==
    Take(SelectIdx(
        << "Smoking", "Advanced age", "Family history", "Heavy alcohol use",
           "Obesity", "Physical inactivity" >>,
        << factors.smoking, factors.age > 65, factors.family_history_cancer,
           factors.alcohol_consumption = "heavy", BmiGE(factors.bmi, 300),
           factors.exercise_frequency = "none" >>,
        1), 5)

_generate_cancer_recommendations(factors, risk) ==
    Take(SelectIdx(
        << Rec("Quit smoking - reduces cancer risk significantly"),
           Rec("Follow cancer screening guidelines for your age group"),
           Rec("Maintain a diet rich in fruits and vegetables"),
           Rec("Limit processed and red meat consumption"),
           Rec("Limit alcohol consumption to reduce cancer risk"),
           Rec("Maintain healthy weight through diet and exercise"),
           Rec("Protect skin from UV radiation with sunscreen"),
           Rec("Stay physically active with regular exercise"),
           Rec("Consider genetic counseling if strong family history"),
           Rec("Discuss enhanced screening protocols with oncologist") >>,
        << factors.smoking, TRUE, TRUE, TRUE,
           factors.alcohol_consumption \in {"moderate", "heavy"},
           BmiGE(factors.bmi, 250),
           TRUE, TRUE, TRUE,
           RiskGT(risk, 150) >>,
        1), 8)

CancerExc(factors) == LowerExc(factors.ethnicity)

\* calculate_risk with the category taken before the ethnicity adjustment
CancerCalculateRiskCategoryFirst(factors) ==
    LET base_risk == _get_base_cancer_risk(factors.age, factors.sex)
        product == [n |-> base_risk * CancerMultiplier(factors), d |-> 200000]
        ten_year_risk == _apply_cancer_ethnicity_adjustment(
                             RiskMin(product, 800), factors.ethnicity)
    IN  [ disease |-> "Cancer (Overall)",
          ten_year_risk |-> ten_year_risk,
          risk_category |-> _categorize_cancer_risk(RiskMin(product, 800)),
          confidence |-> 82,
          algorithm_used |-> "NCI Cancer Risk Models",
          key_risk_factors |-> _identify_cancer_factors(factors),
          recommendations |-> _generate_cancer_recommendations(factors, ten_year_risk) ]

CancerCalculateRisk(factors) ==
    LET base_risk == _get_base_cancer_risk(factors.age, factors.sex)
        product == [n |-> base_risk * CancerMultiplier(factors), d |-> 200000]
        ten_year_risk == _apply_cancer_ethnicity_adjustment(
                             RiskMin(product, 800), factors.ethnicity)
    IN  [ disease |-> "Cancer (Overall)",
          ten_year_risk |-> ten_year_risk,
          risk_category |-> _categorize_cancer_risk(ten_year_risk),
          confidence |-> 82,
          algorithm_used |-> "NCI Cancer Risk Models",
          key_risk_factors |-> _identify_cancer_factors(factors),
          recommendations |-> _generate_cancer_recommendations(factors, ten_year_risk) ]

(***************************************************************************)
(* LifeExpectancyCalculator.  Years are in tenths.                         *)
(***************************************************************************)
\* the class attribute LIFE_EXPECTANCY_BASE as the class body sets it
\* (lines 567-578)
LifeExpectancyBaseInit ==
    [ sex \in SexKeys |->
        IF sex = Str.male
        THEN (20 :> 763 @@ 25 :> 765 @@ 30 :> 768 @@ 35 :> 771 @@ 40 :> 775 @@
              45 :> 780 @@ 50 :> 786 @@ 55 :> 794 @@ 60 :> 804 @@ 65 :> 817 @@
              70 :> 834 @@ 75 :> 856 @@ 80 :> 882 @@ 85 :> 912 @@ 90 :> 948)
        ELSE (20 :> 812 @@ 25 :> 813 @@ 30 :> 815 @@ 35 :> 817 @@ 40 :> 820 @@
              45 :> 824 @@ 50 :> 829 @@ 55 :> 836 @@ 60 :> 845 @@ 65 :> 856 @@
              70 :> 870 @@ 75 :> 888 @@ 80 :> 909 @@ 85 :> 934 @@ 90 :> 964) ]

Abs(x) == IF x < 0 THEN 0 - x ELSE x

\* the largest key that is not above the age, the smallest key below them
ClosestAgeFloor(table, age) ==
    CHOOSE a \in DOMAIN table :
        \A b \in DOMAIN table :
            IF \E c \in DOMAIN table : c <= age
            THEN a <= age /\ (b <= age => b <= a)
            ELSE a <= b

\* min(sorted(table.keys()), key=lambda x: abs(x - age)): the smallest of the
\* nearest keys
ClosestAge(table, age) ==
    CHOOSE a \in DOMAIN table :
        \A b \in DOMAIN table :
            Abs(a - age) < Abs(b - age) \/ (Abs(a - age) = Abs(b - age) /\ a <= b)

_get_base_life_expectancy(tables, age, sex) ==
    tables[lower(sex)][ClosestAge(tables[lower(sex)], age)]

\* the penalties of all the tiers a risk exceeds, added up
RiskAdjustmentsCumulative(factors, disease_risks) ==
    0 - (IF RiskGT(disease_risks.heart_disease, 200) THEN 35 ELSE 0)
      - (IF RiskGT(disease_risks.heart_disease, 100) THEN 20 ELSE 0)
      - (IF RiskGT(disease_risks.heart_disease, 50) THEN 10 ELSE 0)
      - (IF RiskGT(disease_risks.diabetes, 250) THEN 28 ELSE 0)
      - (IF RiskGT(disease_risks.diabetes, 150) THEN 15 ELSE 0)
      - (IF RiskGT(disease_risks.diabetes, 80) THEN 8 ELSE 0)
      - (IF RiskGT(disease_risks.cancer, 150) THEN 22 ELSE 0)
      - (IF RiskGT(disease_risks.cancer, 80) THEN 12 ELSE 0)
      - (IF RiskGT(disease_risks.cancer, 40) THEN 6 ELSE 0)

\* disease_risks.get(...) compared with the tier thresholds (lines 622-642)
_calculate_risk_adjustments(factors, disease_risks) ==
    0 - (IF RiskGT(disease_risks.heart_disease, 200) THEN 35
         ELSE IF RiskGT(disease_risks.heart_disease, 100) THEN 20
         ELSE IF RiskGT(disease_risks.heart_disease, 50) THEN 10 ELSE 0)
      - (IF RiskGT(disease_risks.diabetes, 250) THEN 28
         ELSE IF RiskGT(disease_risks.diabetes, 150) THEN 15
         ELSE IF RiskGT(disease_risks.diabetes, 80) THEN 8 ELSE 0)
      - (IF RiskGT(disease_risks.cancer, 150) THEN 22
         ELSE IF RiskGT(disease_risks.cancer, 80) THEN 12
         ELSE IF RiskGT(disease_risks.cancer, 40) THEN 6 ELSE 0)

_calculate_lifestyle_adjustments(factors) ==
      (IF factors.smoking THEN 0 - 85 ELSE 0)
    + (IF BmiGE(factors.bmi, 350) THEN 0 - 32
       ELSE IF BmiGE(factors.bmi, 300) THEN 0 - 18
       ELSE IF BmiLT(factors.bmi, 185) THEN 0 - 15
       ELSE IF BmiGE(factors.bmi, 185) /\ BmiLE(factors.bmi, 249) THEN 12 ELSE 0)
    + (IF factors.exercise_frequency = "heavy" THEN 28
       ELSE IF factors.exercise_frequency = "moderate" THEN 19
       ELSE IF factors.exercise_frequency = "light" THEN 8
       ELSE IF factors.exercise_frequency = "none" THEN 0 - 21 ELSE 0)
    + (IF factors.alcohol_consumption = "heavy" THEN 0 - 23
       ELSE IF factors.alcohol_consumption = "moderate" THEN 5 ELSE 0)

\* the gains without the credit for light exercise
PotentialGainsNoCredit(factors) ==
    (IF factors.smoking THEN {[key |-> "quit_smoking", n |-> 85, d |-> 10]} ELSE {})
    \cup (IF BmiGE(factors.bmi, 300)
          THEN {IF (10 * factors.bmi.n - 249 * factors.bmi.d) * 3 < 32 * 10 * factors.bmi.d
                THEN [key |-> "weight_loss",
                      n |-> (10 * factors.bmi.n - 249 * factors.bmi.d) * 3,
                      d |-> 100 * factors.bmi.d]
                ELSE [key |-> "weight_loss", n |-> 32, d |-> 10]}
          ELSE {})
    \cup (IF factors.exercise_frequency \in {"none", "light"}
          THEN {[key |-> "increase_exercise", n |-> 28, d |-> 10]}
          ELSE {})
    \cup (IF factors.alcohol_consumption = "heavy"
          THEN {[key |-> "reduce_alcohol", n |-> 28, d |-> 10]} ELSE {})

\* the gains dict as a set of entries [key, n, d], the gain being n/d years
_calculate_potential_gains(factors) ==
    (IF factors.smoking THEN {[key |-> "quit_smoking", n |-> 85, d |-> 10]} ELSE {})
    \cup (IF BmiGE(factors.bmi, 300)
          THEN {IF (10 * factors.bmi.n - 249 * factors.bmi.d) * 3 < 32 * 10 * factors.bmi.d
                THEN [key |-> "weight_loss",
                      n |-> (10 * factors.bmi.n - 249 * factors.bmi.d) * 3,
                      d |-> 100 * factors.bmi.d]
                ELSE [key |-> "weight_loss", n |-> 32, d |-> 10]}
          ELSE {})
    \cup (IF factors.exercise_frequency \in {"none", "light"}
          THEN {[key |-> "increase_exercise",
                 n |-> 28 - (IF factors.exercise_frequency = "light" THEN 8 ELSE 0),
                 d |-> 10]}
          ELSE {})
    \cup (IF factors.alcohol_consumption = "heavy"
          THEN {[key |-> "reduce_alcohol", n |-> 28, d |-> 10]} ELSE {})

LifeExc(factors) == IF lower(factors.sex) \notin SexKeys THEN "KeyError" ELSE "none"

\* the result with the expectancy floored at the subject's age
CalculateLifeExpectancyFloored(tables, factors, disease_risks) ==
    LET base_expectancy == _get_base_life_expectancy(tables, factors.age, factors.sex)
        risk_adjustment == _calculate_risk_adjustments(factors, disease_risks)
        lifestyle_adjustment == _calculate_lifestyle_adjustments(factors)
        adjusted_expectancy == Max(10 * factors.age,
                                   base_expectancy + risk_adjustment + lifestyle_adjustment)
    IN  [ current_life_expectancy |-> adjusted_expectancy,
          base_life_expectancy |-> base_expectancy,
          risk_adjustment |-> risk_adjustment,
          lifestyle_adjustment |-> lifestyle_adjustment,
          potential_gains |-> _calculate_potential_gains(factors),
          years_remaining |-> Max(0, adjusted_expectancy - 10 * factors.age) ]

calculate_life_expectancy(tables, factors, disease_risks) ==
    LET base_expectancy == _get_base_life_expectancy(tables, factors.age, factors.sex)
        risk_adjustment == _calculate_risk_adjustments(factors, disease_risks)
        lifestyle_adjustment == _calculate_lifestyle_adjustments(factors)
        adjusted_expectancy == base_expectancy + risk_adjustment + lifestyle_adjustment
    IN  [ current_life_expectancy |-> adjusted_expectancy,
          base_life_expectancy |-> base_expectancy,
          risk_adjustment |-> risk_adjustment,
          lifestyle_adjustment |-> lifestyle_adjustment,
          potential_gains |-> _calculate_potential_gains(factors),
          years_remaining |-> Max(0, adjusted_expectancy - 10 * factors.age) ]

(***************************************************************************)
(* MedicalAlgorithmFramework._calculate_health_score                       *)
(***************************************************************************)
\* units of the running score per point: every term of the sum is a whole
\* number of them
ScoreScale == 5000000

\* ten_year_risk * (w10 / 10) in score units
Weighted(risk, w10) ==
    IF 10 * risk.d <= ScoreScale
    THEN risk.n * w10 * (ScoreScale \div (10 * risk.d))
    ELSE (risk.n * w10) \div ((10 * risk.d) \div ScoreScale)

\* the weight of a result by its disease name (lines 859-865), in tenths
DiseaseWeight(disease) ==
    CASE disease = "Heart Disease" -> 6
      [] disease = "Type 2 Diabetes" -> 5
      [] disease = "Cancer (Overall)" -> 4
      [] OTHER -> 0

RECURSIVE SumWeighted(_)
SumWeighted(risk_results) ==
    IF Len(risk_results) = 0 THEN 0
    ELSE Weighted(Head(risk_results).ten_year_risk, DiseaseWeight(Head(risk_results).disease))
         + SumWeighted(Tail(risk_results))

\* score before int(), in whole points except for the risk and the
\* life-expectancy terms (lines 837-900)
ScorePoints(factors) ==
    85
    - (IF factors.smoking THEN 25 ELSE 0)
    - (IF BmiGE(factors.bmi, 350) THEN 15
       ELSE IF BmiGE(factors.bmi, 300) THEN 10
       ELSE IF BmiLT(factors.bmi, 185) THEN 8 ELSE 0)
    - (IF factors.exercise_frequency = "none" THEN 15
       ELSE IF factors.exercise_frequency = "light" THEN 8 ELSE 0)
    - (IF factors.alcohol_consumption = "heavy" THEN 12 ELSE 0)
    + (IF factors.age > 65 THEN 0 - 5 ELSE IF factors.age < 30 THEN 5 ELSE 0)
    - (IF factors.family_history_cvd THEN 3 ELSE 0)
    - (IF factors.family_history_diabetes THEN 3 ELSE 0)
    - (IF factors.family_history_cancer THEN 3 ELSE 0)
    + (IF factors.exercise_frequency = "heavy" THEN 8
       ELSE IF factors.exercise_frequency = "moderate" THEN 5 ELSE 0)
    + (IF ~factors.smoking THEN 5 ELSE 0)
    + (IF BmiGE(factors.bmi, 185) /\ BmiLE(factors.bmi, 249) THEN 6 ELSE 0)
    + (IF factors.alcohol_consumption = "moderate" THEN 3
       ELSE IF factors.alcohol_consumption = "none" THEN 2 ELSE 0)

\* line 903 without its lower limit: min(95, int(score))
ClampScoreNoFloor(score) == Min(95, TruncDiv(score, ScoreScale))

\* final_score of line 903: max(15, min(95, int(score)))
ClampScore(score) == Max(15, Min(95, TruncDiv(score, ScoreScale)))

\* how many results have ten_year_risk > 20 (line 906)
HighRiskCount(risk_results) ==
    Cardinality({i \in 1..Len(risk_results) : RiskGT(risk_results[i].ten_year_risk, 200)})

\* lines 906-912 with the branches in the other order: the test for one
\* high risk shadows the test for two
CapScoreOneFirst(final_score, high_risk_count) ==
    IF high_risk_count >= 1 THEN Min(final_score, 65)
    ELSE IF high_risk_count >= 2 THEN Min(final_score, 45)
    ELSE final_score

\* lines 906-912
CapScore(final_score, high_risk_count) ==
    IF high_risk_count >= 2 THEN Min(final_score, 45)
    ELSE IF high_risk_count = 1 THEN Min(final_score, 65)
    ELSE final_score

\* `score` when line 903 is reached, in score units
ScoreSum(risk_results, factors, life_expectancy) ==
    ScorePoints(factors) * ScoreScale
    - SumWeighted(risk_results)
    + life_expectancy.lifestyle_adjustment * 3 * (ScoreScale \div 10)

_calculate_health_score(risk_results, factors, life_expectancy) ==
    CapScore(ClampScore(ScoreSum(risk_results, factors, life_expectancy)),
             HighRiskCount(risk_results))

(***************************************************************************)
(* MedicalAlgorithmFramework._generate_comprehensive_recommendations       *)
(***************************************************************************)
\* the recommendation texts that contain "Quit smoking"
MentionsQuitSmoking(rec) ==
    rec.text \in { "Quit smoking - reduces CVD risk by 50% within 1 year",
                   "Quit smoking - reduces cancer risk significantly",
                   "Quit smoking - single most important health improvement" }

\* append the elements of seq that acc does not hold yet (lines 921-924)
RECURSIVE AppendNew(_, _)
AppendNew(acc, seq) ==
    IF Len(seq) = 0 THEN acc
    ELSE AppendNew(IF InSeq(Head(seq), acc) THEN acc ELSE Append(acc, Head(seq)),
                   Tail(seq))

RECURSIVE CollectRecommendations(_, _)
CollectRecommendations(acc, risk_results) ==
    IF Len(risk_results) = 0 THEN acc
    ELSE CollectRecommendations(AppendNew(acc, Head(risk_results).recommendations),
                                Tail(risk_results))

\* f"{bmi:.1f}" in tenths, for bmi >= 30
BmiTenths(bmi) == RoundHalfEven(10 * bmi.n, bmi.d)

\* the lifestyle-specific entries placed ahead of the collected ones
GenerateComprehensiveLifestyleFirst(risk_results, factors) ==
    LET collected == CollectRecommendations(<<>>, risk_results)
        weight_rec == RecArg("Achieve healthy weight (current BMI: {bmi:.1f})",
                             IF BmiGE(factors.bmi, 300) THEN BmiTenths(factors.bmi) ELSE 0)
        exercise_rec == Rec("Start with 30 minutes of walking 5 days per week")
    IN  Take((IF BmiGE(factors.bmi, 300) THEN << weight_rec >> ELSE <<>>)
             \o (IF factors.exercise_frequency = "none" THEN << exercise_rec >> ELSE <<>>)
             \o collected, 10)

_generate_comprehensive_recommendations(risk_results, factors) ==
    LET collected == CollectRecommendations(<<>>, risk_results)
        with_smoking ==
            IF factors.smoking /\ ~(\E i \in 1..Len(collected) : MentionsQuitSmoking(collected[i]))
            THEN <<Rec("Quit smoking - single most important health improvement")>> \o collected
            ELSE collected
        weight_rec == RecArg("Achieve healthy weight (current BMI: {bmi:.1f})",
                             IF BmiGE(factors.bmi, 300) THEN BmiTenths(factors.bmi) ELSE 0)
        with_weight ==
            IF BmiGE(factors.bmi, 300) /\ ~InSeq(weight_rec, with_smoking)
            THEN Append(with_smoking, weight_rec) ELSE with_smoking
        exercise_rec == Rec("Start with 30 minutes of walking 5 days per week")
        with_exercise ==
            IF factors.exercise_frequency = "none" /\ ~InSeq(exercise_rec, with_weight)
            THEN Append(with_weight, exercise_rec) ELSE with_weight
    IN  Take(with_exercise, 10)

(***************************************************************************)
(* The orchestrator as a state machine.  A task is a caller of             *)
(* comprehensive_risk_assessment; its position in the method body is pc.   *)
(***************************************************************************)
Tasks == {1, 2}

\* how many calls a task makes at most
MaxCalls == 2

VARIABLES
    LIFE_EXPECTANCY_BASE,   \* the class attribute shared by all calls
    clock,                  \* datetime.utcnow(), advanced by every return
    calls_left,             \* calls each task may still make
    pc,                     \* position of each task in the method
    user_data,              \* the argument of each task's call
    factors,                \* locals of the method body, per task
    heart_risk,
    diabetes_risk,
    cancer_risk,
    life_expectancy_data,
    health_score,
    all_recommendations,
    result,                 \* the dict returned to the caller
    exc,                    \* the exception propagated to the caller
    history,                \* completed calls: [input, output without date]
    settings,               \* app.core.config.settings
    http                    \* the /predict request each task serves

vars == << LIFE_EXPECTANCY_BASE, clock, calls_left, pc, user_data, factors,
           heart_risk, diabetes_risk, cancer_risk, life_expectancy_data,
           health_score, all_recommendations, result, exc, history,
           settings, http >>

locals == << factors, heart_risk, diabetes_risk, cancer_risk,
             life_expectancy_data, health_score, all_recommendations >>

\* a local that is not bound yet, a result not returned, no exception
Unset == [unset |-> TRUE]
NoExc == [type |-> "none", stage |-> "none"]

\* the user_data mapping with its thirteen keys
UserData(age, sex, height_cm, weight_kg, ethnicity, tobacco_use, exercise_frequency, alcohol_consumption, family_history, past_diagnoses, labs) ==
    [ age |-> age, sex |-> sex, height_cm |-> height_cm, weight_kg |-> weight_kg,
      ethnicity |-> ethnicity, tobacco_use |-> tobacco_use,
      exercise_frequency |-> exercise_frequency,
      alcohol_consumption |-> alcohol_consumption,
      family_history |-> family_history, past_diagnoses |-> past_diagnoses,
      systolic_bp |-> labs[1], total_cholesterol |-> labs[2],
      hdl_cholesterol |-> labs[3] ]

\* _risk_result_to_dict with the field names of RiskResult as its keys
RiskResultToDictFieldNames(risk_result) ==
    [ disease |-> risk_result.disease,
      ten_year_risk |-> risk_result.ten_year_risk,
      risk_category |-> risk_result.risk_category,
      confidence |-> risk_result.confidence,
      algorithm_used |-> risk_result.algorithm_used,
      key_risk_factors |-> risk_result.key_risk_factors,
      recommendations |-> risk_result.recommendations ]

\* _risk_result_to_dict (lines 943-953)
_risk_result_to_dict(risk_result) ==
    [ disease_name |-> risk_result.disease,
      risk_score |-> risk_result.ten_year_risk,
      risk_category |-> risk_result.risk_category,
      confidence_score |-> risk_result.confidence,
      algorithm_used |-> risk_result.algorithm_used,
      key_risk_factors |-> risk_result.key_risk_factors,
      recommendations |-> risk_result.recommendations ]

\* the dict of lines 740-751
ResultDict(heart, diabetes, cancer, score, life, recommendations, now) ==
    [ risk_assessments |-> << _risk_result_to_dict(heart),
                              _risk_result_to_dict(diabetes),
                              _risk_result_to_dict(cancer) >>,
      health_score |-> score,
      life_expectancy |-> life,
      comprehensive_recommendations |-> recommendations,
      algorithm_framework |-> "Evidence-Based Medical Algorithms v2.0",
      assessment_date |-> now ]

\* a result without its timestamp
WithoutDate(r) ==
    [ risk_assessments |-> r.risk_assessments,
      health_score |-> r.health_score,
      life_expectancy |-> r.life_expectancy,
      comprehensive_recommendations |-> r.comprehensive_recommendations,
      algorithm_framework |-> r.algorithm_framework ]

\* the caller invokes comprehensive_risk_assessment(user_data)
Call(t) ==
    /\ pc[t] \in {"idle", "done", "raised"}
    /\ calls_left[t] > 0
    /\ calls_left' = [calls_left EXCEPT ![t] = calls_left[t] - 1]
    /\ pc' = [pc EXCEPT ![t] = "called"]
    /\ factors' = [factors EXCEPT ![t] = Unset]
    /\ heart_risk' = [heart_risk EXCEPT ![t] = Unset]
    /\ diabetes_risk' = [diabetes_risk EXCEPT ![t] = Unset]
    /\ cancer_risk' = [cancer_risk EXCEPT ![t] = Unset]
    /\ life_expectancy_data' = [life_expectancy_data EXCEPT ![t] = Unset]
    /\ health_score' = [health_score EXCEPT ![t] = 0]
    /\ all_recommendations' = [all_recommendations EXCEPT ![t] = <<>>]
    /\ result' = [result EXCEPT ![t] = Unset]
    /\ exc' = [exc EXCEPT ![t] = NoExc]
    /\ UNCHANGED << settings, http, LIFE_EXPECTANCY_BASE, clock, user_data, history >>

\* an except clause that returns what was computed so far instead of raising
ReturnPartial(t, type, stage) ==
    /\ pc' = [pc EXCEPT ![t] = "done"]
    /\ result' = [result EXCEPT ![t] =
           [ risk_assessments |-> <<>>,
             health_score |-> health_score[t],
             life_expectancy |-> life_expectancy_data[t],
             comprehensive_recommendations |-> all_recommendations[t],
             algorithm_framework |-> "Evidence-Based Medical Algorithms v2.0",
             assessment_date |-> clock ]]
    /\ exc' = [exc EXCEPT ![t] = [type |-> type, stage |-> stage]]
    /\ UNCHANGED << settings, http, LIFE_EXPECTANCY_BASE, clock, calls_left, user_data, locals,
                    history >>

\* `except Exception as e: ... raise` (lines 752-754): the exception leaves
\* the method, nothing is returned
Raise(t, type, stage) ==
    /\ pc' = [pc EXCEPT ![t] = "raised"]
    /\ exc' = [exc EXCEPT ![t] = [type |-> type, stage |-> stage]]
    /\ UNCHANGED << settings, http, LIFE_EXPECTANCY_BASE, clock, calls_left, user_data, locals,
                    result, history >>

\* line 710
Convert(t) ==
    /\ pc[t] = "called"
    /\ IF ConvertExc(user_data[t]) # "none"
       THEN Raise(t, ConvertExc(user_data[t]), "normalizer")
       ELSE /\ factors' = [factors EXCEPT ![t] = _convert_to_risk_factors(user_data[t])]
            /\ pc' = [pc EXCEPT ![t] = "normalized"]
            /\ UNCHANGED << settings, http, LIFE_EXPECTANCY_BASE, clock, calls_left, user_data,
                            heart_risk, diabetes_risk, cancer_risk,
                            life_expectancy_data, health_score,
                            all_recommendations, result, exc, history >>

\* line 713
CalcHeart(t) ==
    /\ pc[t] = "normalized"
    /\ IF HeartExc(factors[t]) # "none"
       THEN Raise(t, HeartExc(factors[t]), "heart")
       ELSE /\ heart_risk' = [heart_risk EXCEPT ![t] = HeartCalculateRisk(factors[t])]
            /\ pc' = [pc EXCEPT ![t] = "heart"]
            /\ UNCHANGED << settings, http, LIFE_EXPECTANCY_BASE, clock, calls_left, user_data,
                            factors, diabetes_risk, cancer_risk,
                            life_expectancy_data, health_score,
                            all_recommendations, result, exc, history >>

\* line 714
CalcDiabetes(t) ==
    /\ pc[t] = "heart"
    /\ IF DiabetesExc(factors[t]) # "none"
       THEN Raise(t, DiabetesExc(factors[t]), "diabetes")
       ELSE /\ diabetes_risk' = [diabetes_risk EXCEPT ![t] = DiabetesCalculateRisk(factors[t])]
            /\ pc' = [pc EXCEPT ![t] = "diabetes"]
            /\ UNCHANGED << settings, http, LIFE_EXPECTANCY_BASE, clock, calls_left, user_data,
                            factors, heart_risk, cancer_risk,
                            life_expectancy_data, health_score,
                            all_recommendations, result, exc, history >>

\* line 715
CalcCancer(t) ==
    /\ pc[t] = "diabetes"
    /\ IF CancerExc(factors[t]) # "none"
       THEN Raise(t, CancerExc(factors[t]), "cancer")
       ELSE /\ cancer_risk' = [cancer_risk EXCEPT ![t] = CancerCalculateRisk(factors[t])]
            /\ pc' = [pc EXCEPT ![t] = "cancer"]
            /\ UNCHANGED << settings, http, LIFE_EXPECTANCY_BASE, clock, calls_left, user_data,
                            factors, heart_risk, diabetes_risk,
                            life_expectancy_data, health_score,
                            all_recommendations, result, exc, history >>

\* a lookup that stores the value it found under the subject's own age
LifeTableCached(tables, factors_t) ==
    [tables EXCEPT ![lower(factors_t.sex)] =
        (factors_t.age :> _get_base_life_expectancy(tables, factors_t.age, factors_t.sex))
        @@ tables[lower(factors_t.sex)]]

\* the class table after a life-expectancy lookup: the method only reads it
LifeTableAfter(tables, factors_t) == tables

\* lines 718-726
CalcLife(t) ==
    /\ pc[t] = "cancer"
    /\ IF LifeExc(factors[t]) # "none"
       THEN Raise(t, LifeExc(factors[t]), "life_expectancy")
       ELSE /\ life_expectancy_data' =
                   [life_expectancy_data EXCEPT ![t] =
                       calculate_life_expectancy(
                           LIFE_EXPECTANCY_BASE, factors[t],
                           [ heart_disease |-> heart_risk[t].ten_year_risk,
                             diabetes |-> diabetes_risk[t].ten_year_risk,
                             cancer |-> cancer_risk[t].ten_year_risk ])]
            /\ LIFE_EXPECTANCY_BASE' = LifeTableAfter(LIFE_EXPECTANCY_BASE, factors[t])
            /\ pc' = [pc EXCEPT ![t] = "life"]
            /\ UNCHANGED << settings, http, clock, calls_left, user_data, factors, heart_risk,
                            diabetes_risk, cancer_risk, health_score,
                            all_recommendations, result, exc, history >>

\* lines 729-733
CalcScore(t) ==
    /\ pc[t] = "life"
    /\ health_score' = [health_score EXCEPT ![t] =
           _calculate_health_score(<< heart_risk[t], diabetes_risk[t], cancer_risk[t] >>,
                                   factors[t], life_expectancy_data[t])]
    /\ pc' = [pc EXCEPT ![t] = "scored"]
    /\ UNCHANGED << settings, http, LIFE_EXPECTANCY_BASE, clock, calls_left, user_data, factors,
                    heart_risk, diabetes_risk, cancer_risk, life_expectancy_data,
                    all_recommendations, result, exc, history >>

\* lines 736-738
GenRecommendations(t) ==
    /\ pc[t] = "scored"
    /\ all_recommendations' = [all_recommendations EXCEPT ![t] =
           _generate_comprehensive_recommendations(
               << heart_risk[t], diabetes_risk[t], cancer_risk[t] >>, factors[t])]
    /\ pc' = [pc EXCEPT ![t] = "merged"]
    /\ UNCHANGED << settings, http, LIFE_EXPECTANCY_BASE, clock, calls_left, user_data, factors,
                    heart_risk, diabetes_risk, cancer_risk, life_expectancy_data,
                    health_score, result, exc, history >>

\* the value the method returns at lines 740-751
Returned(t) ==
    ResultDict(heart_risk[t], diabetes_risk[t], cancer_risk[t], health_score[t],
               life_expectancy_data[t], all_recommendations[t], clock)

\* lines 740-751
Return(t) ==
    /\ pc[t] = "merged"
    /\ result' = [result EXCEPT ![t] = Returned(t)]
    /\ pc' = [pc EXCEPT ![t] = "done"]
    /\ clock' = clock + 1
    /\ history' = history \cup
           {[input |-> user_data[t], output |-> WithoutDate(Returned(t))]}
    /\ UNCHANGED << settings, http, LIFE_EXPECTANCY_BASE, calls_left, user_data, locals, exc >>

Next ==
    \E t \in Tasks :
        \/ Call(t)
        \/ Convert(t)
        \/ CalcHeart(t)
        \/ CalcDiabetes(t)
        \/ CalcCancer(t)
        \/ CalcLife(t)
        \/ CalcScore(t)
        \/ GenRecommendations(t)
        \/ Return(t)

\* the framework is called directly, as test_dynamic_predictions.py does: no
\* request is served
NoEndpoint ==
    /\ settings = [GROQ_API_KEY |-> NoneV]
    /\ http = [t \in Tasks |-> [stage |-> "none"]]

\* everything but the arguments and the call budget, before any call
InitCommon ==
    /\ LIFE_EXPECTANCY_BASE = LifeExpectancyBaseInit
    /\ clock = 0
    /\ pc = [t \in Tasks |-> "idle"]
    /\ factors = [t \in Tasks |-> Unset]
    /\ heart_risk = [t \in Tasks |-> Unset]
    /\ diabetes_risk = [t \in Tasks |-> Unset]
    /\ cancer_risk = [t \in Tasks |-> Unset]
    /\ life_expectancy_data = [t \in Tasks |-> Unset]
    /\ health_score = [t \in Tasks |-> 0]
    /\ all_recommendations = [t \in Tasks |-> <<>>]
    /\ result = [t \in Tasks |-> Unset]
    /\ exc = [t \in Tasks |-> NoExc]
    /\ history = {}

(***************************************************************************)
(* Inputs                                                                  *)
(***************************************************************************)
NoLabs == << NoneV, NoneV, NoneV >>

\* well-formed attribute values, as the front end sends them
WellFormedValues ==
    [ age |-> { IntV(25), IntV(55), IntV(61), IntV(68), IntV(95) },
      sex |-> { StrV(Str.male), StrV(<<"F", "e", "m", "a", "l", "e">>), StrV(<<"o", "t", "h", "e", "r">>) },
      weight_kg |-> { IntV(60), IntV(95), IntV(110) },
      ethnicity |-> { StrV(Str.caucasian), StrV(<<"N", "a", "t", "i", "v", "e", " ", "A", "m", "e", "r", "i", "c", "a", "n">>), StrV(<<"a", "s", "i", "a", "n">>) },
      tobacco_use |-> { StrV(Str.never), StrV(<<"D", "a", "i", "l", "y">>) },
      exercise_frequency |-> { StrV(Str.never), StrV(<<"3", "-", "4", " ", "t", "i", "m", "e", "s", " ", "p", "e", "r", " ", "w", "e", "e", "k">>),
                               StrV(Str.daily) },
      alcohol_consumption |-> { StrV(Str.never), StrV(Str.daily) },
      family_history |-> { ListV(<<>>),
                           ListV(<< ItemStr(<<"H", "e", "a", "r", "t", " ", "D", "i", "s", "e", "a", "s", "e">>), ItemStr(Str.diabetes),
                                    ItemStr(<<"b", "r", "e", "a", "s", "t", " ", "c", "a", "n", "c", "e", "r">>) >>) },
      past_diagnoses |-> { ListV(<<>>), ListV(<< ItemStr(<<"T", "y", "p", "e", " ", "2", " ", "D", "i", "a", "b", "e", "t", "e", "s">>) >>) },
      labs |-> { NoLabs,
                 << IntV(125), IntV(180), IntV(46) >>,
                 << IntV(150), IntV(250), IntV(35) >> } ]

WellFormedInputs ==
    { UserData(age, sex, IntV(175), weight, ethnicity, tobacco, exercise, alcohol,
               family, past, labs) :
        age \in WellFormedValues.age, sex \in WellFormedValues.sex,
        weight \in WellFormedValues.weight_kg,
        ethnicity \in WellFormedValues.ethnicity,
        tobacco \in WellFormedValues.tobacco_use,
        exercise \in WellFormedValues.exercise_frequency,
        alcohol \in WellFormedValues.alcohol_consumption,
        family \in WellFormedValues.family_history,
        past \in WellFormedValues.past_diagnoses,
        labs \in WellFormedValues.labs }

\* the second profile of test_dynamic_predictions.py (lines 41-61)
HighRiskSmoker ==
    UserData(IntV(55), StrV(Str.male), IntV(175), IntV(95), StrV(Str.caucasian),
             StrV(Str.daily), StrV(Str.never), StrV(Str.daily),
             ListV(<< ItemStr(<<"h", "e", "a", "r", "t", " ", "d", "i", "s", "e", "a", "s", "e">>), ItemStr(Str.diabetes) >>),
             ListV(<< ItemStr(<<"h", "i", "g", "h", " ", "b", "l", "o", "o", "d", " ", "p", "r", "e", "s", "s", "u", "r", "e">>) >>), NoLabs)

\* missing and malformed values of each attribute, and for the enum
\* attributes other spellings of the table keys and words outside the tables
MalformedValues ==
    [ age |-> { Absent, NoneV, StrV(<<"4", "2">>), StrV(<<"a", "b", "c">>), IntV(0 - 5), IntV(300),
                ListV(<<>>) },
      sex |-> { Absent, NoneV, IntV(1) },
      height_cm |-> { Absent, NoneV, IntV(0), IntV(0 - 175), StrV(<<"1", "8", "0">>), StrV(<<"a", "b", "c">>),
                      StrV(<<"0">>), StrV(<<>>) },
      weight_kg |-> { Absent, NoneV, IntV(0), IntV(0 - 70), StrV(<<"8", "0">>), StrV(<<"a", "b", "c">>) },
      ethnicity |-> { Absent, NoneV, StrV(<<"M", "a", "r", "t", "i", "a", "n">>) },
      tobacco_use |-> { Absent, NoneV, IntV(1), StrV(<<" ", "D", "a", "i", "l", "y", " ">>),
                        StrV(<<"Y", "E", "S">>), StrV(<<"C", "u", "r", "r", "e", "n", "t">>), StrV(<<"o", "c", "c", "a", "s", "i", "o", "n", "a", "l", "l", "y">>), StrV(<<"f", "o", "r", "m", "e", "r">>) },
      exercise_frequency |-> { Absent, NoneV, StrV(<<"s", "o", "m", "e", "t", "i", "m", "e", "s">>),
                               StrV(<<"R", "a", "r", "e", "l", "y">>), StrV(<<"1", "-", "2", " ", "t", "i", "m", "e", "s", " ", "p", "e", "r", " ", "w", "e", "e", "k">>),
                               StrV(<<"5", "+", " ", "t", "i", "m", "e", "s", " ", "p", "e", "r", " ", "w", "e", "e", "k">>),
                               StrV(<<" ", "N", "e", "v", "e", "r", " ">>), StrV(<<"D", "A", "I", "L", "Y">>) },
      alcohol_consumption |-> { Absent, NoneV, StrV(<<"m", "o", "d", "e", "r", "a", "t", "e">>),
                                StrV(<<"W", "e", "e", "k", "l", "y">>), StrV(<<"o", "c", "c", "a", "s", "i", "o", "n", "a", "l", "l", "y">>), StrV(<<"R", "A", "R", "E", "L", "Y">>),
                                StrV(<<"m", "u", "l", "t", "i", "p", "l", "e", " ", "t", "i", "m", "e", "s", " ", "d", "a", "i", "l", "y">>),
                                StrV(<<" ", "D", "a", "i", "l", "y", " ">>) },
      family_history |-> { Absent, NoneV, StrV(<<"C", "a", "r", "d", "i", "a", "c", " ", "a", "r", "r", "e", "s", "t">>), ListV(<< ItemNone >>),
                           ListV(<< ItemStr(Str.heart), ItemNone >>), IntV(3) },
      past_diagnoses |-> { Absent, NoneV, StrV(Str.diabetes), ListV(<< ItemNone >>) },
      systolic_bp |-> { Absent, IntV(0), IntV(400), StrV(<<"1", "2", "0">>) },
      total_cholesterol |-> { Absent, IntV(0), StrV(<<"2", "0", "0">>) },
      hdl_cholesterol |-> { Absent, IntV(0), StrV(<<"5", "0">>) } ]

\* the profile with one attribute, or height and weight, replaced
MalformedInputs ==
    UNION { { [HighRiskSmoker EXCEPT ![k] = v] : v \in MalformedValues[k] } :
              k \in DOMAIN MalformedValues }
    \cup
    { [HighRiskSmoker EXCEPT !["height_cm"] = h, !["weight_kg"] = w] :
        h \in MalformedValues.height_cm, w \in MalformedValues.weight_kg }

Inputs == WellFormedInputs \cup MalformedInputs

(***************************************************************************)
(* One caller, one call, any input: the whole method.                      *)
(***************************************************************************)
Init ==
    /\ InitCommon
    /\ NoEndpoint
    /\ calls_left = [t \in Tasks |-> IF t = 1 THEN 1 ELSE 0]
    /\ \E ud \in Inputs : user_data = [t \in Tasks |-> ud]

Spec == Init /\ [][Next]_vars

(***************************************************************************)
(* Two callers that share the class, each calling the method MaxCalls      *)
(* times with its own input; their steps interleave.                       *)
(***************************************************************************)
ConcInputs ==
    { HighRiskSmoker,
      [HighRiskSmoker EXCEPT !["age"] = IntV(63), !["sex"] = StrV(<<"F", "e", "m", "a", "l", "e">>)],
      [HighRiskSmoker EXCEPT !["age"] = IntV(61)],
      [HighRiskSmoker EXCEPT !["sex"] = StrV(<<"o", "t", "h", "e", "r">>)] }

InitConc ==
    /\ InitCommon
    /\ NoEndpoint
    /\ calls_left = [t \in Tasks |-> MaxCalls]
    /\ user_data \in [Tasks -> ConcInputs]

SpecConc == InitConc /\ [][Next]_vars

(***************************************************************************)
(* _calculate_health_score on its own: any three risks, any flags, any     *)
(* lifestyle adjustment, handed to the step of lines 729-733.              *)
(***************************************************************************)
\* ten-year risks around the 20 % limit and at the ends of their ranges, and
\* lifestyle adjustments in tenths of a year
ScoreArgs ==
    [ heart |-> { [n |-> k, d |-> 10000] : k \in {0, 200000, 200001, 1000000} },
      diabetes |-> { [n |-> k, d |-> 10] : k \in {5, 200, 201, 900} },
      cancer |-> { [n |-> k, d |-> 2000000] :
                     k \in {0, 40000000, 40000001, 192000000} },
      lifestyle_adjustment |-> {0 - 300, 0, 300},
      user_data |-> { ud \in WellFormedInputs :
                        /\ ud.sex = StrV(Str.male)
                        /\ ud.ethnicity = StrV(Str.caucasian)
                        /\ ud.age \in {IntV(25), IntV(55), IntV(68)}
                        /\ ud.past_diagnoses = ListV(<<>>)
                        /\ ud.systolic_bp = NoneV } ]

ScoreInit ==
    /\ LIFE_EXPECTANCY_BASE = LifeExpectancyBaseInit
    /\ clock = 0
    /\ calls_left = [t \in Tasks |-> 0]
    /\ health_score = [t \in Tasks |-> 0]
    /\ all_recommendations = [t \in Tasks |-> <<>>]
    /\ result = [t \in Tasks |-> Unset]
    /\ exc = [t \in Tasks |-> NoExc]
    /\ history = {}
    /\ NoEndpoint
    /\ pc = [t \in Tasks |-> IF t = 1 THEN "life" ELSE "idle"]
    /\ \E ud \in ScoreArgs.user_data, hr \in ScoreArgs.heart,
          dr \in ScoreArgs.diabetes, cr \in ScoreArgs.cancer,
          adj \in ScoreArgs.lifestyle_adjustment :
          \* the fields of its arguments that _calculate_health_score reads
          LET heart == [disease |-> "Heart Disease", ten_year_risk |-> hr]
              diabetes == [disease |-> "Type 2 Diabetes", ten_year_risk |-> dr]
              cancer == [disease |-> "Cancer (Overall)", ten_year_risk |-> cr]
              life == [lifestyle_adjustment |-> adj]
          IN  /\ user_data = [t \in Tasks |-> ud]
              /\ factors = [t \in Tasks |->
                     IF t = 1 THEN _convert_to_risk_factors(ud) ELSE Unset]
              /\ heart_risk = [t \in Tasks |-> IF t = 1 THEN heart ELSE Unset]
              /\ diabetes_risk = [t \in Tasks |-> IF t = 1 THEN diabetes ELSE Unset]
              /\ cancer_risk = [t \in Tasks |-> IF t = 1 THEN cancer ELSE Unset]
              /\ life_expectancy_data = [t \in Tasks |-> IF t = 1 THEN life ELSE Unset]

SpecScore == ScoreInit /\ [][\E t \in Tasks : CalcScore(t)]_vars

(***************************************************************************)
(* The three categorizers on their own: a risk from 0 to MaxRiskStep       *)
(* twentieths of a percent is handed to each of them, as calculate_risk    *)
(* does at lines 137, 301 and 453.                                         *)
(***************************************************************************)
MaxRiskStep == 600

CatInit ==
    /\ LIFE_EXPECTANCY_BASE = LifeExpectancyBaseInit
    /\ clock = 0
    /\ calls_left = [t \in Tasks |-> 0]
    /\ user_data = [t \in Tasks |-> HighRiskSmoker]
    /\ factors = [t \in Tasks |-> Unset]
    /\ life_expectancy_data = [t \in Tasks |-> Unset]
    /\ health_score = [t \in Tasks |-> 0]
    /\ all_recommendations = [t \in Tasks |-> <<>>]
    /\ result = [t \in Tasks |-> Unset]
    /\ exc = [t \in Tasks |-> NoExc]
    /\ history = {}
    /\ NoEndpoint
    /\ pc = [t \in Tasks |-> IF t = 1 THEN "categorize" ELSE "idle"]
    /\ \E k \in 0..MaxRiskStep :
          LET r == [ten_year_risk |-> [n |-> k, d |-> 20], risk_category |-> "unset"]
          IN  /\ heart_risk = [t \in Tasks |-> IF t = 1 THEN r ELSE Unset]
              /\ diabetes_risk = [t \in Tasks |-> IF t = 1 THEN r ELSE Unset]
              /\ cancer_risk = [t \in Tasks |-> IF t = 1 THEN r ELSE Unset]

\* risk_category=self._categorize_risk(ten_year_risk) of each calculator
Categorize(t) ==
    /\ pc[t] = "categorize"
    /\ heart_risk' = [heart_risk EXCEPT ![t].risk_category =
                          _categorize_risk(heart_risk[t].ten_year_risk)]
    /\ diabetes_risk' = [diabetes_risk EXCEPT ![t].risk_category =
                          _categorize_diabetes_risk(diabetes_risk[t].ten_year_risk)]
    /\ cancer_risk' = [cancer_risk EXCEPT ![t].risk_category =
                          _categorize_cancer_risk(cancer_risk[t].ten_year_risk)]
    /\ pc' = [pc EXCEPT ![t] = "categorized"]
    /\ UNCHANGED << settings, http, LIFE_EXPECTANCY_BASE, clock, calls_left, user_data, factors,
                    life_expectancy_data, health_score, all_recommendations,
                    result, exc, history >>

SpecCat == CatInit /\ [][\E t \in Tasks : Categorize(t)]_vars

(***************************************************************************)
(* ADADiabetesRiskCalculator.calculate_risk on its own: factors on both    *)
(* sides of every band of the score are handed to the step of line 714.    *)
(***************************************************************************)
\* ages and weights (at 175 cm) next to the band limits, systolic pressures
\* next to 140
DiabetesArgs ==
    { UserData(IntV(age), sex, IntV(175), IntV(weight), ethnicity, tobacco, exercise,
               StrV(Str.never), family, ListV(<<>>), << bp, NoneV, NoneV >>) :
        age \in {34, 35, 44, 45, 64, 65},
        sex \in { StrV(Str.male), StrV(Str.female) },
        weight \in {76, 77, 91, 92, 107, 108},
        ethnicity \in { StrV(Str.caucasian), StrV(<<"N", "a", "t", "i", "v", "e", " ", "A", "m", "e", "r", "i", "c", "a", "n">>), StrV(<<"P", "a", "c", "i", "f", "i", "c", " ", "I", "s", "l", "a", "n", "d", "e", "r">>) },
        tobacco \in { StrV(Str.never), StrV(Str.daily) },
        exercise \in { StrV(Str.never), StrV(Str.rarely), StrV(Str.daily) },
        family \in { ListV(<<>>), ListV(<< ItemStr(Str.diabetes) >>) },
        bp \in { NoneV, IntV(140), IntV(141) } }

DiabetesInit ==
    /\ LIFE_EXPECTANCY_BASE = LifeExpectancyBaseInit
    /\ clock = 0
    /\ calls_left = [t \in Tasks |-> 0]
    /\ heart_risk = [t \in Tasks |-> Unset]
    /\ diabetes_risk = [t \in Tasks |-> Unset]
    /\ cancer_risk = [t \in Tasks |-> Unset]
    /\ life_expectancy_data = [t \in Tasks |-> Unset]
    /\ health_score = [t \in Tasks |-> 0]
    /\ all_recommendations = [t \in Tasks |-> <<>>]
    /\ result = [t \in Tasks |-> Unset]
    /\ exc = [t \in Tasks |-> NoExc]
    /\ history = {}
    /\ NoEndpoint
    /\ pc = [t \in Tasks |-> IF t = 1 THEN "heart" ELSE "idle"]
    /\ \E ud \in DiabetesArgs :
          /\ user_data = [t \in Tasks |-> ud]
          /\ factors = [t \in Tasks |->
                 IF t = 1 THEN _convert_to_risk_factors(ud) ELSE Unset]

SpecDiabetes == DiabetesInit /\ [][\E t \in Tasks : CalcDiabetes(t)]_vars

(***************************************************************************)
(* Two callers whose inputs differ in one attribute: the second caller is  *)
(* one year older than the first, or smokes where the first does not.      *)
(* Each calls the method once.                                             *)
(***************************************************************************)
MinAge == 18
MaxAge == 92

\* the profiles the compared inputs are built from
PairProfiles ==
    [ age |-> { UserData(IntV(35), sex, IntV(175), IntV(60), StrV(Str.caucasian),
                         StrV(Str.never), StrV(Str.daily), StrV(Str.never),
                         ListV(<<>>), ListV(<<>>), labs) :
                    sex \in { StrV(Str.male), StrV(Str.female) },
                    labs \in { NoLabs, << IntV(125), IntV(180), IntV(46) >> } }
              \cup { HighRiskSmoker, [HighRiskSmoker EXCEPT !["sex"] = StrV(Str.female)] },
      smoking |-> { ud \in WellFormedInputs :
                      /\ ud.sex # StrV(<<"o", "t", "h", "e", "r">>)
                      /\ ud.weight_kg # IntV(95)
                      /\ ud.tobacco_use = StrV(Str.never)
                      /\ ud.exercise_frequency # StrV(Str.daily)
                      /\ ud.past_diagnoses = ListV(<<>>)
                      /\ ud.ethnicity # StrV(<<"a", "s", "i", "a", "n">>) } ]

PairInputs ==
    { << [ud EXCEPT !["age"] = IntV(a)], [ud EXCEPT !["age"] = IntV(a + 1)] >> :
        ud \in PairProfiles.age, a \in MinAge..MaxAge }
    \cup
    { << ud, [ud EXCEPT !["tobacco_use"] = StrV(<<"D", "a", "i", "l", "y">>)] >> :
        ud \in PairProfiles.smoking }

InitPair ==
    /\ InitCommon
    /\ NoEndpoint
    /\ calls_left = [t \in Tasks |-> 1]
    /\ \E pair \in PairInputs : user_data = [t \in Tasks |-> pair[t]]

SpecPair == InitPair /\ [][Next]_vars

\* the two callers' inputs differ in tobacco_use only, the second one smoking
SmokingPair ==
    /\ user_data[1].tobacco_use = StrV(Str.never)
    /\ user_data[2] = [user_data[1] EXCEPT !["tobacco_use"] = StrV(<<"D", "a", "i", "l", "y">>)]

\* the two callers' inputs differ in age only, the second one a year older
AgePair ==
    /\ user_data[1].age.t = "int"
    /\ user_data[2] = [user_data[1] EXCEPT !["age"] = IntV(user_data[1].age.n + 1)]

\* both callers have returned
BothDone == \A t \in Tasks : pc[t] = "done"

(***************************************************************************)
(* LifeExpectancyCalculator.calculate_life_expectancy on its own: factors  *)
(* and three disease risks are handed to the step of lines 718-726.        *)
(***************************************************************************)
\* pairs << user_data, disease_risks >>: every age from MinAge to MaxAge + 1
\* and every lifestyle with the lowest and the highest risks, and one profile
\* with risks at and just above every tier threshold
LifeArgs ==
    LET sweep == { [ud EXCEPT !["age"] = IntV(a)] :
                     ud \in PairProfiles.age, a \in MinAge..(MaxAge + 1) }
        lifestyles ==
            { UserData(IntV(55), StrV(Str.male), IntV(175), IntV(weight), StrV(Str.caucasian),
                       tobacco, exercise, alcohol, ListV(<<>>), ListV(<<>>), NoLabs) :
                weight \in {60, 92, 108, 110},
                tobacco \in { StrV(Str.never), StrV(Str.daily) },
                exercise \in { StrV(Str.never), StrV(Str.rarely), StrV(<<"3", "-", "4", " ", "t", "i", "m", "e", "s", " ", "p", "e", "r", " ", "w", "e", "e", "k">>), StrV(Str.daily) },
                alcohol \in { StrV(Str.never), StrV(Str.daily) } }
        risks(heart, diabetes, cancer) ==
            [ heart_disease |-> [n |-> heart, d |-> 10000],
              diabetes |-> [n |-> diabetes, d |-> 10],
              cancer |-> [n |-> cancer, d |-> 2000000] ]
        ends == { risks(0, 10, 0), risks(1000000, 900, 192000000) }
        tiers == { risks(heart, diabetes, cancer) :
                     heart \in {0, 50000, 50001, 100000, 100001, 200000, 200001},
                     diabetes \in {10, 80, 81, 150, 151, 250, 251},
                     cancer \in {0, 8000000, 8000001, 16000000, 16000001,
                                 30000000, 30000001} }
    IN  ((sweep \cup lifestyles) \X ends) \cup ({HighRiskSmoker} \X tiers)

LifeInit ==
    /\ LIFE_EXPECTANCY_BASE = LifeExpectancyBaseInit
    /\ clock = 0
    /\ calls_left = [t \in Tasks |-> 0]
    /\ life_expectancy_data = [t \in Tasks |-> Unset]
    /\ health_score = [t \in Tasks |-> 0]
    /\ all_recommendations = [t \in Tasks |-> <<>>]
    /\ result = [t \in Tasks |-> Unset]
    /\ exc = [t \in Tasks |-> NoExc]
    /\ history = {}
    /\ NoEndpoint
    /\ pc = [t \in Tasks |-> IF t = 1 THEN "cancer" ELSE "idle"]
    /\ \E args \in LifeArgs :
          \* the field of each risk result that lines 718-722 read
          LET ud == args[1]
              heart == [disease |-> "Heart Disease", ten_year_risk |-> args[2].heart_disease]
              diabetes == [disease |-> "Type 2 Diabetes", ten_year_risk |-> args[2].diabetes]
              cancer == [disease |-> "Cancer (Overall)", ten_year_risk |-> args[2].cancer]
          IN  /\ user_data = [t \in Tasks |-> ud]
              /\ factors = [t \in Tasks |->
                     IF t = 1 THEN _convert_to_risk_factors(ud) ELSE Unset]
              /\ heart_risk = [t \in Tasks |-> IF t = 1 THEN heart ELSE Unset]
              /\ diabetes_risk = [t \in Tasks |-> IF t = 1 THEN diabetes ELSE Unset]
              /\ cancer_risk = [t \in Tasks |-> IF t = 1 THEN cancer ELSE Unset]

SpecLife == LifeInit /\ [][\E t \in Tasks : CalcLife(t)]_vars

(***************************************************************************)
(* Properties                                                              *)
(***************************************************************************)
\* C1: whatever the three disease risks, the factor flags and the lifestyle
\* adjustment are, the health score that _calculate_health_score returns is
\* an integer from 15 to 95, the secondary cap included.
C1_HealthScoreInRange ==
    \A t \in Tasks :
        pc[t] = "scored" => health_score[t] \in Int /\ 15 <= health_score[t]
                                                    /\ health_score[t] <= 95

\* a score whose sum lies below 15 points, with two risks above 20 %, was
\* returned as 15
C1_Witness ==
    \E t \in Tasks :
        /\ pc[t] = "scored"
        /\ ScoreSum(<< heart_risk[t], diabetes_risk[t], cancer_risk[t] >>,
                    factors[t], life_expectancy_data[t]) < 15 * ScoreScale
        /\ heart_risk[t].ten_year_risk.n > 20 * heart_risk[t].ten_year_risk.d
        /\ cancer_risk[t].ten_year_risk.n > 20 * cancer_risk[t].ten_year_risk.d
        /\ health_score[t] = 15

\* C2: with at least two of the three ten-year risks strictly above 20 the
\* final score is at most 45, with exactly one it is at most 65; the cap acts
\* on the clamped score and never raises it, and without a risk above 20 the
\* clamped score is returned.
C2_SecondaryCap ==
    \A t \in Tasks :
        pc[t] = "scored" =>
            LET risks == << heart_risk[t].ten_year_risk,
                            diabetes_risk[t].ten_year_risk,
                            cancer_risk[t].ten_year_risk >>
                high == Cardinality({i \in 1..3 : risks[i].n > 20 * risks[i].d})
                clamped == ClampScore(
                               ScoreSum(<< heart_risk[t], diabetes_risk[t], cancer_risk[t] >>,
                                        factors[t], life_expectancy_data[t]))
            IN  /\ high >= 2 => health_score[t] <= 45
                /\ high = 1 => health_score[t] <= 65
                /\ high = 0 => health_score[t] = clamped
                /\ health_score[t] <= clamped
                /\ health_score[t] >= 15

\* two risks above 20 % (the third exactly 20 %) lowered a clamped score
\* above 45 to 45
C2_Witness ==
    \E t \in Tasks :
        /\ pc[t] = "scored"
        /\ heart_risk[t].ten_year_risk.n > 20 * heart_risk[t].ten_year_risk.d
        /\ diabetes_risk[t].ten_year_risk.n > 20 * diabetes_risk[t].ten_year_risk.d
        /\ cancer_risk[t].ten_year_risk.n = 20 * cancer_risk[t].ten_year_risk.d
        /\ ClampScore(ScoreSum(<< heart_risk[t], diabetes_risk[t], cancer_risk[t] >>,
                               factors[t], life_expectancy_data[t])) > 45
        /\ health_score[t] = 45

\* C3: every reported ten-year risk is non-negative and within its cap:
\* Heart Disease <= 100, Type 2 Diabetes <= 90, Cancer (Overall) <= 80.
C3_RisksWithinCaps ==
    \A t \in Tasks :
        /\ pc[t] \in {"heart", "diabetes", "cancer", "life", "scored", "merged", "done"} =>
               /\ 0 <= heart_risk[t].ten_year_risk.n
               /\ heart_risk[t].ten_year_risk.n <= 100 * heart_risk[t].ten_year_risk.d
        /\ pc[t] \in {"diabetes", "cancer", "life", "scored", "merged", "done"} =>
               /\ 0 <= diabetes_risk[t].ten_year_risk.n
               /\ diabetes_risk[t].ten_year_risk.n <= 90 * diabetes_risk[t].ten_year_risk.d
        /\ pc[t] \in {"cancer", "life", "scored", "merged", "done"} =>
               /\ 0 <= cancer_risk[t].ten_year_risk.n
               /\ cancer_risk[t].ten_year_risk.n <= 80 * cancer_risk[t].ten_year_risk.d

\* C4: the merged recommendation list has at most 10 entries, holds no entry
\* twice, and starts with a "Quit smoking" entry whenever tobacco_use of the
\* input is one of yes, current, daily, occasionally.
C4_Recommendations ==
    \A t \in Tasks :
        pc[t] \in {"merged", "done"} =>
            LET recs == all_recommendations[t]
                tobacco == user_data[t].tobacco_use
            IN  /\ Len(recs) <= 10
                /\ \A i, j \in 1..Len(recs) : i # j => recs[i] # recs[j]
                /\ (tobacco.t = "str" /\ lower(tobacco.s) \in TobaccoWords) =>
                       /\ Len(recs) >= 1
                       /\ recs[1].text \in
                              { "Quit smoking - reduces CVD risk by 50% within 1 year",
                                "Quit smoking - reduces cancer risk significantly",
                                "Quit smoking - single most important health improvement" }

\* a smoker's three lists held more than 10 distinct entries; 10 were
\* returned, the first of them the smoking-cessation entry
C4_Witness ==
    \E t \in Tasks :
        /\ pc[t] = "done"
        /\ factors[t].smoking
        /\ Len(heart_risk[t].recommendations) + Len(diabetes_risk[t].recommendations)
             + Len(cancer_risk[t].recommendations) > 10
        /\ Len(result[t].comprehensive_recommendations) = 10
        /\ result[t].comprehensive_recommendations[1].text =
               "Quit smoking - reduces CVD risk by 50% within 1 year"

\* C5: the category bounds are strict lower bounds: a cardiovascular risk
\* below 7.5 is Low, from 7.5 and below 20 Medium, from 20 High; diabetes has
\* the bounds 10 and 25, cancer 5 and 15.
C5_CategoryBounds ==
    \A t \in Tasks :
        pc[t] = "categorized" =>
            LET Category(risk, low, high) ==
                    IF 2 * risk.n < low * risk.d THEN "Low"
                    ELSE IF 2 * risk.n < high * risk.d THEN "Medium"
                    ELSE "High"
            IN  /\ heart_risk[t].risk_category =
                       Category(heart_risk[t].ten_year_risk, 15, 40)
                /\ diabetes_risk[t].risk_category =
                       Category(diabetes_risk[t].ten_year_risk, 20, 50)
                /\ cancer_risk[t].risk_category =
                       Category(cancer_risk[t].ten_year_risk, 10, 30)

\* a risk of exactly 7.5 was categorized: Medium for the heart, and the same
\* value Low for diabetes and Medium for cancer
C5_Witness ==
    \E t \in Tasks :
        /\ pc[t] = "categorized"
        /\ 2 * heart_risk[t].ten_year_risk.n = 15 * heart_risk[t].ten_year_risk.d
        /\ heart_risk[t].risk_category = "Medium"
        /\ diabetes_risk[t].risk_category = "Low"
        /\ cancer_risk[t].risk_category = "Medium"

\* C6: the normalizer _convert_to_risk_factors never raises, whatever keys
\* are missing and whatever values are malformed.
C6_NormalizerNeverRaises ==
    \A t \in Tasks : ~(pc[t] = "raised" /\ exc[t].stage = "normalizer")

\* C7: the BMI is weight / (height/100)^2 when height and weight are both
\* positive numbers; otherwise it is exactly 25.0, no error is raised by its
\* computation, and it is never negative.
C7_BmiDefault ==
    \A t \in Tasks :
        LET h == user_data[t].height_cm
            w == user_data[t].weight_kg
            Positive(v) == NumExc(v) = "none" /\ NumVal(v) > 0
        IN  /\ pc[t] = "normalized" =>
                   /\ factors[t].bmi.d > 0
                   /\ factors[t].bmi.n >= 0
                   /\ IF Positive(h) /\ Positive(w)
                      THEN /\ factors[t].bmi.n = NumVal(w) * 10000
                           /\ factors[t].bmi.d = NumVal(h) * NumVal(h)
                      ELSE factors[t].bmi.n = 25 * factors[t].bmi.d
            /\ ~(pc[t] = "raised" /\ exc[t].stage = "normalizer"
                                 /\ BmiExc(user_data[t]) # "none")

\* C8: no calculator fails on a RiskFactors value that the normalizer
\* produced: the Framingham, diabetes, cancer and life-expectancy steps all
\* return.
C8_CalculatorsNeverFail ==
    \A t \in Tasks :
        ~(pc[t] = "raised"
          /\ exc[t].stage \in {"heart", "diabetes", "cancer", "life_expectancy"})

\* C9: a call either returns a result with all its parts (three assessments
\* in the order heart, diabetes, cancer, the health score, the life
\* expectancy and the recommendations) or propagates one exception and
\* returns nothing; no result exists before the return.
C9_AllOrNothing ==
    \A t \in Tasks :
        /\ pc[t] = "done" =>
               /\ exc[t] = NoExc
               /\ DOMAIN result[t] =
                      { "risk_assessments", "health_score", "life_expectancy",
                        "comprehensive_recommendations", "algorithm_framework",
                        "assessment_date" }
               /\ Len(result[t].risk_assessments) = 3
               /\ result[t].risk_assessments[1].disease_name = "Heart Disease"
               /\ result[t].risk_assessments[2].disease_name = "Type 2 Diabetes"
               /\ result[t].risk_assessments[3].disease_name = "Cancer (Overall)"
               /\ result[t].health_score = health_score[t]
               /\ result[t].life_expectancy = life_expectancy_data[t]
               /\ "current_life_expectancy" \in DOMAIN result[t].life_expectancy
               /\ result[t].comprehensive_recommendations = all_recommendations[t]
        /\ pc[t] = "raised" =>
               /\ exc[t].type # "none"
               /\ DOMAIN result[t] = {"unset"}
        /\ pc[t] # "done" => DOMAIN result[t] = {"unset"}

\* a call returned its complete result, the cancer assessment High
C9_Witness ==
    \E t \in Tasks :
        /\ pc[t] = "done"
        /\ Len(result[t].risk_assessments) = 3
        /\ result[t].risk_assessments[3].risk_category = "High"
        /\ Len(result[t].comprehensive_recommendations) > 0

\* C10: calls with the same input return the same output in every field but
\* assessment_date, whatever other calls ran before, between or concurrently;
\* no call changes the life-expectancy table or the input mapping.
C10_Deterministic ==
    /\ [](\A h1, h2 \in history : h1.input = h2.input => h1.output = h2.output)
    /\ [](LIFE_EXPECTANCY_BASE = LifeExpectancyBaseInit)
    /\ [][user_data' = user_data]_vars

\* the first caller has returned from its second call while the second
\* caller, with another input, is inside a call of its own after an earlier
\* return
C10_Witness ==
    /\ pc[1] = "done" /\ calls_left[1] = 0
    /\ pc[2] = "cancer" /\ calls_left[2] = 0
    /\ user_data[1] # user_data[2]
    /\ clock = 3
    /\ Cardinality(history) = 2

\* C11 (as amended): with every other attribute the same, the smoker's
\* diabetes ten-year risk is never below the non-smoker's: smoking adds one
\* point to the score (line 294), so the risk is strictly higher unless the
\* non-smoker already has the top table value (85 percent for a woman, the
\* clamp of 90 percent for a man), where the two risks are equal.
C11_SmokingRaisesDiabetesRisk ==
    (SmokingPair /\ BothDone) =>
        LET no == diabetes_risk[1].ten_year_risk
            yes == diabetes_risk[2].ten_year_risk
            top == IF factors[1].sex = Str.male THEN 900 ELSE 850
        IN  /\ yes.d = no.d
            /\ IF no.n * 10 >= top * no.d THEN yes.n = no.n ELSE yes.n > no.n

\* a smoker and a non-smoker, otherwise alike, have both got their results
\* and the smoker's diabetes risk is the higher one
C11_Witness ==
    /\ SmokingPair /\ BothDone
    /\ diabetes_risk[2].ten_year_risk.n > diabetes_risk[1].ten_year_risk.n
    /\ factors[2].smoking /\ ~factors[1].smoking

\* C11 as stated: switching smoking from false to true leaves the diabetes
\* ten-year risk unchanged.
C11_DiabetesIgnoresSmoking ==
    (SmokingPair /\ BothDone) =>
        diabetes_risk[2].ten_year_risk = diabetes_risk[1].ten_year_risk

C13_MonotoneInAge ==
    (AgePair /\ BothDone) =>
        /\ factors[2].age = factors[1].age + 1
        /\ _get_base_cancer_risk(factors[1].age, factors[1].sex)
               <= _get_base_cancer_risk(factors[2].age, factors[2].sex)
        /\ TotalScore(factors[1]) <= TotalScore(factors[2])
        /\ heart_risk[1].ten_year_risk.d = heart_risk[2].ten_year_risk.d
        /\ heart_risk[1].ten_year_risk.n <= heart_risk[2].ten_year_risk.n
        /\ cancer_risk[1].ten_year_risk.d = cancer_risk[2].ten_year_risk.d
        /\ cancer_risk[1].ten_year_risk.n <= cancer_risk[2].ten_year_risk.n

\* a subject of 59 and one of 60, otherwise alike, have both got their
\* results: the older one is in the next cancer band and both risks are higher
C13_Witness ==
    /\ AgePair /\ BothDone
    /\ factors[1].age = 59
    /\ heart_risk[1].ten_year_risk.n > 0
    /\ heart_risk[2].ten_year_risk.n > heart_risk[1].ten_year_risk.n
    /\ cancer_risk[2].ten_year_risk.n > cancer_risk[1].ten_year_risk.n

\* C14: whenever the normalizer returns, exercise_frequency and
\* alcohol_consumption are each one of none, light, moderate, heavy; an input
\* string that is a table key in any letter case has the table's value, any
\* other string and a missing key give moderate, and a call whose only
\* unusual attributes are such strings is not stopped in the normalizer.
C14_EnumFieldsNormalized ==
    LET levels == {"none", "light", "moderate", "heavy"}
        tables ==
            [ exercise_frequency |->
                (<<"n", "e", "v", "e", "r">> :> "none" @@
                 <<"r", "a", "r", "e", "l", "y">> :> "light" @@
                 <<"1", "-", "2", " ", "t", "i", "m", "e", "s", " ", "p", "e", "r", " ", "w", "e", "e", "k">> :> "light" @@
                 <<"3", "-", "4", " ", "t", "i", "m", "e", "s", " ", "p", "e", "r", " ", "w", "e", "e", "k">> :> "moderate" @@
                 <<"5", "+", " ", "t", "i", "m", "e", "s", " ", "p", "e", "r", " ", "w", "e", "e", "k">> :> "heavy" @@
                 <<"d", "a", "i", "l", "y">> :> "heavy"),
              alcohol_consumption |->
                (<<"n", "e", "v", "e", "r">> :> "none" @@
                 <<"r", "a", "r", "e", "l", "y">> :> "light" @@
                 <<"o", "c", "c", "a", "s", "i", "o", "n", "a", "l", "l", "y">> :> "light" @@
                 <<"w", "e", "e", "k", "l", "y">> :> "moderate" @@
                 <<"d", "a", "i", "l", "y">> :> "heavy" @@
                 <<"m", "u", "l", "t", "i", "p", "l", "e", " ", "t", "i", "m", "e", "s", " ", "d", "a", "i", "l", "y">> :> "heavy") ]
        expected(v, table) ==
            LET key == IF v.t = "absent" THEN <<>> ELSE lower(v.s)
            IN  IF key \in DOMAIN table THEN table[key] ELSE "moderate"
        stopped(t) == pc[t] = "raised" /\ exc[t].stage = "normalizer"
    IN  \A t \in Tasks :
            LET ex == user_data[t].exercise_frequency
                al == user_data[t].alcohol_consumption
            IN  /\ (pc[t] \notin {"idle", "called"} /\ ~stopped(t)) =>
                     /\ factors[t].exercise_frequency \in levels
                     /\ factors[t].alcohol_consumption \in levels
                     /\ ex.t \in {"str", "absent"} =>
                            factors[t].exercise_frequency = expected(ex, tables.exercise_frequency)
                     /\ al.t \in {"str", "absent"} =>
                            factors[t].alcohol_consumption = expected(al, tables.alcohol_consumption)
                /\ ( /\ ex.t \in {"str", "absent"} /\ al.t \in {"str", "absent"}
                     /\ [user_data[t] EXCEPT !["exercise_frequency"] = HighRiskSmoker.exercise_frequency,
                                             !["alcohol_consumption"] = HighRiskSmoker.alcohol_consumption]
                            = HighRiskSmoker )
                       => ~stopped(t)

\* the normalizer has returned for an input whose exercise_frequency is a
\* word outside the table, and the field is moderate
C14_Witness ==
    \E t \in Tasks :
        /\ pc[t] = "normalized"
        /\ user_data[t].exercise_frequency = StrV(<<"s", "o", "m", "e", "t", "i", "m", "e", "s">>)
        /\ factors[t].exercise_frequency = "moderate"
        /\ factors[t].alcohol_consumption = "heavy"

\* C15: whenever the normalizer returns, an exercise, alcohol or tobacco
\* string normalizes to the value of the table key it spells once letter case
\* and leading and trailing spaces are set aside (" Daily " as "daily").
C15_EnumLookupTrims ==
    LET strip(s) ==
            LET kept == { i \in 1..Len(s) : s[i] # " " }
            IN  IF kept = {} THEN <<>>
                ELSE SubSeq(s, CHOOSE i \in kept : \A j \in kept : i <= j,
                               CHOOSE i \in kept : \A j \in kept : i >= j)
    IN  \A t \in Tasks :
            (pc[t] \notin {"idle", "called"}
             /\ ~(pc[t] = "raised" /\ exc[t].stage = "normalizer")) =>
                LET tobacco == user_data[t].tobacco_use
                    ex == user_data[t].exercise_frequency
                    al == user_data[t].alcohol_consumption
                IN  /\ tobacco.t = "str" =>
                           factors[t].smoking = (strip(lower(tobacco.s)) \in TobaccoWords)
                    /\ ex.t = "str" =>
                           factors[t].exercise_frequency = exercise_map(strip(lower(ex.s)))
                    /\ al.t = "str" =>
                           factors[t].alcohol_consumption = alcohol_map(strip(lower(al.s)))

\* C16: the diabetes ten-year risk is min(T[min(score, 14)] * (1.1 for a
\* man, else 1), 90), T being the table for the scores 0..14 and score the sum
\* of the points for age (>= 65: 3, >= 45: 2, >= 35: 1), body-mass index
\* (>= 35: 3, >= 30: 2, >= 25: 1), a family history of diabetes (3), a
\* higher-risk ethnicity (2), exercise (none 2, light 1), smoking (1) and a
\* measured systolic pressure above 140 (1), one band per factor.
C16_DiabetesFormula ==
    \A t \in Tasks :
        pc[t] = "diabetes" =>
            LET f == factors[t]
                T == << 1, 2, 3, 5, 8, 12, 18, 25, 33, 42, 52, 62, 72, 80, 85 >>
                age_points == IF f.age >= 65 THEN 3 ELSE IF f.age >= 45 THEN 2
                              ELSE IF f.age >= 35 THEN 1 ELSE 0
                bmi_points == IF f.bmi.n >= 35 * f.bmi.d THEN 3
                              ELSE IF f.bmi.n >= 30 * f.bmi.d THEN 2
                              ELSE IF f.bmi.n >= 25 * f.bmi.d THEN 1 ELSE 0
                exercise_points == IF f.exercise_frequency = "none" THEN 2
                                   ELSE IF f.exercise_frequency = "light" THEN 1 ELSE 0
                bp_points == IF f.systolic_bp.t = "int" /\ f.systolic_bp.n > 140 THEN 1 ELSE 0
                score == age_points + bmi_points
                         + (IF f.family_history_diabetes THEN 3 ELSE 0)
                         + _get_ethnicity_risk(f.ethnicity)
                         + exercise_points
                         + (IF f.smoking THEN 1 ELSE 0)
                         + bp_points
                tenths == T[Min(score, 14) + 1] * (IF f.sex = Str.male THEN 11 ELSE 10)
            IN  /\ _get_ethnicity_risk(f.ethnicity) \in {0, 2}
                /\ diabetes_risk[t].ten_year_risk = [n |-> Min(tenths, 900), d |-> 10]

\* a man with the highest score, 15: every factor in its top band; the table
\* is read at 14 and 85 * 1.1 = 93.5 is clamped to 90
C16_Witness ==
    /\ pc[1] = "diabetes"
    /\ DiabetesRiskScore(factors[1]) = 15
    /\ factors[1].sex = Str.male
    /\ diabetes_risk[1].ten_year_risk = [n |-> 900, d |-> 10]

\* C17: the base life expectancy for an integer age is the entry of the
\* table of the subject's sex under the key (20, 25, ..., 90) nearest to the
\* age; exactly one key is nearest, it is 20 for ages up to 20 and 90 for
\* ages from 90 (a man of 20 or younger gets 76.3).
C17_NearestAgeLookup ==
    \A t \in Tasks :
        pc[t] = "life" =>
            LET age == factors[t].age
                keys == { 5 * k : k \in 4..18 }
                nearest == { k \in keys : \A j \in keys : Abs(k - age) <= Abs(j - age) }
                table == LifeExpectancyBaseInit[factors[t].sex]
            IN  /\ DOMAIN table = keys
                /\ Cardinality(nearest) = 1
                /\ age <= 20 => nearest = {20}
                /\ age >= 90 => nearest = {90}
                /\ \A k \in nearest :
                       life_expectancy_data[t].base_life_expectancy = table[k]
                /\ (age <= 20 /\ factors[t].sex = Str.male) =>
                       life_expectancy_data[t].base_life_expectancy = 763

\* the lookup has run for a woman of 23, an age that is no key of the table
\* and whose nearest key, 25, lies above it
C17_Witness ==
    /\ pc[1] = "life"
    /\ factors[1].age = 23
    /\ factors[1].sex = Str.female
    /\ life_expectancy_data[1].base_life_expectancy = 813

\* C18: in every life-expectancy result current_life_expectancy is
\* base_life_expectancy + risk_adjustment + lifestyle_adjustment, with no
\* floor, and years_remaining is max(0, current_life_expectancy - age), so
\* never negative (all in tenths of a year).
C18_ExpectancyIsSum ==
    \A t \in Tasks :
        pc[t] = "life" =>
            LET l == life_expectancy_data[t]
                age10 == 10 * factors[t].age
            IN  /\ l.current_life_expectancy
                       = l.base_life_expectancy + l.risk_adjustment + l.lifestyle_adjustment
                /\ l.years_remaining
                       = (IF l.current_life_expectancy > age10
                          THEN l.current_life_expectancy - age10 ELSE 0)
                /\ l.years_remaining >= 0

\* a result whose current life expectancy is below the subject's age: the
\* sum is reported as it is and years_remaining is 0
C18_Witness ==
    /\ pc[1] = "life"
    /\ life_expectancy_data[1].current_life_expectancy < 10 * factors[1].age
    /\ life_expectancy_data[1].risk_adjustment < 0
    /\ life_expectancy_data[1].lifestyle_adjustment < 0
    /\ life_expectancy_data[1].years_remaining = 0

\* C19: the risk adjustment is the sum of one penalty per disease, that of
\* the highest tier the ten-year risk strictly exceeds: heart > 20 / > 10 /
\* > 5 gives -3.5 / -2.0 / -1.0, diabetes > 25 / > 15 / > 8 gives -2.8 /
\* -1.5 / -0.8, cancer > 15 / > 8 / > 4 gives -2.2 / -1.2 / -0.6, else 0; it
\* lies between -8.5 and 0 (tenths of a year).
C19_RiskAdjustmentTiers ==
    \A t \in Tasks :
        pc[t] = "life" =>
            LET penalty(risk, high, mid, low, tiers) ==
                    IF risk.n > high * risk.d THEN tiers[1]
                    ELSE IF risk.n > mid * risk.d THEN tiers[2]
                    ELSE IF risk.n > low * risk.d THEN tiers[3] ELSE 0
                adjustment == life_expectancy_data[t].risk_adjustment
            IN  /\ adjustment =
                       0 - penalty(heart_risk[t].ten_year_risk, 20, 10, 5, << 35, 20, 10 >>)
                         - penalty(diabetes_risk[t].ten_year_risk, 25, 15, 8, << 28, 15, 8 >>)
                         - penalty(cancer_risk[t].ten_year_risk, 15, 8, 4, << 22, 12, 6 >>)
                /\ 0 - 85 <= adjustment /\ adjustment <= 0

\* a heart risk just above 20 percent is in the top tier alone, a diabetes
\* risk of exactly 15 percent in the lowest, a cancer risk of exactly 4
\* percent in none: -3.5 - 0.8 - 0
C19_Witness ==
    /\ pc[1] = "life"
    /\ heart_risk[1].ten_year_risk = [n |-> 200001, d |-> 10000]
    /\ diabetes_risk[1].ten_year_risk = [n |-> 150, d |-> 10]
    /\ cancer_risk[1].ten_year_risk = [n |-> 8000000, d |-> 2000000]
    /\ life_expectancy_data[1].risk_adjustment = 0 - 43

\* C20: the potential-gains map has quit_smoking (8.5) exactly when the
\* subject smokes, weight_loss (min((BMI - 24.9) * 0.3, 3.2)) exactly when
\* the body-mass index is 30 or more, increase_exercise (2.8 for none, 2.0
\* for light) exactly when exercise is none or light, reduce_alcohol (2.8)
\* exactly when alcohol is heavy, and nothing else; it is empty when none of
\* the conditions holds.
C20_PotentialGains ==
    \A t \in Tasks :
        pc[t] = "life" =>
            LET f == factors[t]
                gains == life_expectancy_data[t].potential_gains
                has(key) == \E e \in gains : e.key = key
                \* every entry under the key is worth tenths / 10 years
                worth(key, tenths) == \A e \in gains : e.key = key => e.n * 10 = tenths * e.d
                excess == 3 * (10 * f.bmi.n - 249 * f.bmi.d)
            IN  /\ \A e1, e2 \in gains : e1.key = e2.key => e1 = e2
                /\ \A e \in gains : e.key \in {"quit_smoking", "weight_loss",
                                              "increase_exercise", "reduce_alcohol"}
                /\ has("quit_smoking") <=> f.smoking
                /\ worth("quit_smoking", 85)
                /\ has("weight_loss") <=> f.bmi.n >= 30 * f.bmi.d
                /\ IF excess >= 320 * f.bmi.d
                   THEN worth("weight_loss", 32)
                   ELSE \A e \in gains : e.key = "weight_loss" =>
                            e.n = excess /\ e.d = 100 * f.bmi.d
                /\ has("increase_exercise") <=> f.exercise_frequency \in {"none", "light"}
                /\ worth("increase_exercise",
                         IF f.exercise_frequency = "light" THEN 20 ELSE 28)
                /\ has("reduce_alcohol") <=> f.alcohol_consumption = "heavy"
                /\ worth("reduce_alcohol", 28)
                /\ ( ~f.smoking /\ f.bmi.n < 30 * f.bmi.d
                     /\ f.exercise_frequency \notin {"none", "light"}
                     /\ f.alcohol_consumption # "heavy" ) => gains = {}

\* a smoker with a body-mass index between 30 and 35.5, light exercise and
\* heavy alcohol: all four entries, weight_loss below its cap of 3.2 and
\* increase_exercise at 2.0
C20_Witness ==
    /\ pc[1] = "life"
    /\ factors[1].smoking
    /\ factors[1].exercise_frequency = "light"
    /\ factors[1].alcohol_consumption = "heavy"
    /\ Cardinality(life_expectancy_data[1].potential_gains) = 4
    /\ \E e \in life_expectancy_data[1].potential_gains :
           e.key = "weight_loss" /\ e.n * 10 < 32 * e.d
    /\ [key |-> "increase_exercise", n |-> 20, d |-> 10]
           \in life_expectancy_data[1].potential_gains

\* the nine cardiovascular conditions of a subject in the order of the
\* code, with the measured lab value where one is given and the estimate
\* otherwise
HeartConditions(f) ==
    LET total_chol == LabOr(f.total_cholesterol, _estimate_cholesterol(f))
        hdl_chol == LabOr(f.hdl_cholesterol, _estimate_hdl(f))
        systolic_bp == LabOr(f.systolic_bp, _estimate_bp(f))
    IN  << [label |-> "Advanced age", holds |-> f.age > 65],
           [label |-> "Smoking", holds |-> f.smoking],
           [label |-> "Diabetes", holds |-> f.diabetes],
           [label |-> "High cholesterol", holds |-> total_chol > 240],
           [label |-> "Low HDL cholesterol", holds |-> hdl_chol < 40],
           [label |-> "High blood pressure", holds |-> systolic_bp > 140],
           [label |-> "Obesity", holds |-> f.bmi.n > 30 * f.bmi.d],
           [label |-> "Family history", holds |-> f.family_history_cvd],
           [label |-> "Sedentary lifestyle", holds |-> f.exercise_frequency = "none"] >>

\* C21: the cardiovascular key-risk-factor list is the first five, in the
\* order age > 65, smoking, diabetes, cholesterol > 240, HDL < 40, systolic
\* pressure > 140, BMI > 30, family history, sedentary, of the conditions that
\* hold (lab values measured or else estimated): at most five entries, none
\* whose condition is false, none twice.
C21_KeyFactorsFirstFive ==
    \A t \in Tasks :
        pc[t] = "heart" =>
            LET cond == HeartConditions(factors[t])
                H == { j \in 1..9 : cond[j].holds }
                kf == heart_risk[t].key_risk_factors
            IN  /\ Len(kf) = Min(5, Cardinality(H))
                /\ \A i \in 1..Len(kf) :
                       \E j \in H : /\ kf[i] = cond[j].label
                                    /\ Cardinality({ k \in H : k < j }) = i - 1
                /\ \A i, k \in 1..Len(kf) : kf[i] = kf[k] => i = k

\* more than five conditions hold: the list has the first five and leaves
\* out the others
C21_Witness ==
    /\ pc[1] = "heart"
    /\ LET cond == HeartConditions(factors[1])
       IN  /\ Cardinality({ j \in 1..9 : cond[j].holds }) > 5
           /\ cond[1].holds /\ ~cond[2].holds /\ cond[9].holds
           /\ Len(heart_risk[1].key_risk_factors) = 5
           /\ heart_risk[1].key_risk_factors[1] = "Advanced age"
           /\ ~InSeq("Sedentary lifestyle", heart_risk[1].key_risk_factors)

\* C22: the cardiovascular recommendation list, after the cap of 8, is every
\* condition-specific recommendation whose condition in the code holds
\* (smoking; BMI > 30; exercise none or light; "High cholesterol" among the
\* key factors; "High blood pressure" among the key factors; risk > 20, or
\* else risk > 7.5), in that order, followed by a non-empty prefix of the five
\* general items: the cap cuts no condition-specific item, no general item
\* comes before a condition-specific one, and the list has 5 to 8 entries.
C22_ConditionItemsThenTail ==
    \A t \in Tasks :
        pc[t] = "heart" =>
            LET f == factors[t]
                h == heart_risk[t]
                high == h.ten_year_risk.n * 10 > 200 * h.ten_year_risk.d
                medium == ~high /\ h.ten_year_risk.n * 10 > 75 * h.ten_year_risk.d
                specific ==
                    (IF f.smoking
                     THEN << "Quit smoking - reduces CVD risk by 50% within 1 year" >>
                     ELSE <<>>)
                    \o (IF f.bmi.n > 30 * f.bmi.d
                        THEN << "Achieve healthy weight (BMI 18.5-24.9) through diet and exercise" >>
                        ELSE <<>>)
                    \o (IF f.exercise_frequency \in {"none", "light"}
                        THEN << "Engage in 150 minutes of moderate aerobic activity weekly" >>
                        ELSE <<>>)
                    \o (IF InSeq("High cholesterol", h.key_risk_factors)
                        THEN << "Follow heart-healthy diet, consider statin therapy consultation" >>
                        ELSE <<>>)
                    \o (IF InSeq("High blood pressure", h.key_risk_factors)
                        THEN << "Monitor blood pressure regularly, reduce sodium intake" >>
                        ELSE <<>>)
                    \o (IF high
                        THEN << "Consult cardiologist for comprehensive cardiovascular evaluation" >>
                        ELSE IF medium
                        THEN << "Discuss aspirin therapy and statin use with your physician" >>
                        ELSE <<>>)
                tail == << "Follow Mediterranean or DASH diet pattern",
                           "Limit alcohol consumption to moderate levels",
                           "Manage stress through relaxation techniques",
                           "Get adequate sleep (7-9 hours nightly)",
                           "Schedule regular health screenings" >>
                texts == [ i \in 1..Len(h.recommendations) |-> h.recommendations[i].text ]
            IN  /\ Len(texts) \in 5..8
                /\ \E k \in 1..5 : texts = specific \o SubSeq(tail, 1, k)

\* six condition-specific items apply: the cap of 8 leaves the first two
\* general items after them
C22_Witness ==
    /\ pc[1] = "heart"
    /\ Len(heart_risk[1].recommendations) = 8
    /\ heart_risk[1].recommendations[1].text = "Quit smoking - reduces CVD risk by 50% within 1 year"
    /\ heart_risk[1].recommendations[5].text = "Monitor blood pressure regularly, reduce sodium intake"
    /\ heart_risk[1].recommendations[6].text = "Consult cardiologist for comprehensive cardiovascular evaluation"
    /\ heart_risk[1].recommendations[7].text = "Follow Mediterranean or DASH diet pattern"
    /\ heart_risk[1].recommendations[8].text = "Limit alcohol consumption to moderate levels"

\* C23: for the second test profile (a man of 55, 175 cm, 95 kg, daily
\* smoker, no exercise, heavy alcohol, family history of heart disease and
\* diabetes, no lab values) the cardiovascular and the diabetes category are
\* each Medium or High, and the health score is at most 65 when exactly one
\* disease is above 20 % and at most 45 when two or more are.
C23_HighRiskSmokerScenario ==
    \A t \in Tasks :
        (pc[t] = "done" /\ user_data[t] = HighRiskSmoker) =>
            LET ra == result[t].risk_assessments
                above == { i \in 1..3 : ra[i].risk_score.n * 10 > 200 * ra[i].risk_score.d }
            IN  /\ ra[1].disease_name = "Heart Disease"
                /\ ra[1].risk_category \in {"Medium", "High"}
                /\ ra[2].disease_name = "Type 2 Diabetes"
                /\ ra[2].risk_category \in {"Medium", "High"}
                /\ Cardinality(above) = 1 => result[t].health_score <= 65
                /\ Cardinality(above) >= 2 => result[t].health_score <= 45

\* the call for the profile has returned: heart 100 %, diabetes 57.2 %, both
\* High, cancer above 20 % as well, health score 15
C23_Witness ==
    /\ pc[1] = "done"
    /\ user_data[1] = HighRiskSmoker
    /\ result[1].risk_assessments[1].risk_score = [n |-> 1000000, d |-> 10000]
    /\ result[1].risk_assessments[1].risk_category = "High"
    /\ result[1].risk_assessments[2].risk_score = [n |-> 572, d |-> 10]
    /\ result[1].risk_assessments[2].risk_category = "High"
    /\ result[1].risk_assessments[3].risk_category = "High"
    /\ result[1].health_score = 15

(***************************************************************************)
(* POST /predict (api_v1/endpoints/predictions.py): the request body's     *)
(* user_data or a sample profile goes through comprehensive_risk_assessment *)
(* and then, with the assessment, to the Groq reasoning service.           *)
(***************************************************************************)
\* the sample profile of lines 56-73
DefaultUserData ==
    UserData(IntV(35), StrV(Str.male), IntV(175), IntV(75), StrV(Str.caucasian),
             StrV(Str.never),
             StrV(<<"3", "-", "4", " ", "t", "i", "m", "e", "s", " ", "p", "e", "r", " ", "w", "e", "e", "k">>),
             StrV(<<"m", "o", "d", "e", "r", "a", "t", "e">>),
             ListV(<<>>), ListV(<<>>), << Absent, Absent, Absent >>)

\* get_groq_service (lines 21-28): raises when the key is None or empty
get_groq_service(GROQ_API_KEY) ==
    IF ~Truthy(GROQ_API_KEY) THEN "HTTPException" ELSE "GroqAIService"

\* what the Groq API does with the request of lines 411-430: an answer with
\* status 200 whose content is the JSON object asked for, or is JSON of
\* another shape, or is no JSON, or has no choices; another status; no answer
LlmOutcomes ==
    { "reasoning", "other_json", "content_not_json", "no_choices",
      "status_429", "status_500", "timeout", "connect_error" }

\* GroqAIService.generate_health_reasoning (lines 368-451): json.loads of the
\* content of an answer with status 200, and its fallback when anything in
\* the try block raised
generate_health_reasoning(outcome, algorithm_results) ==
    CASE outcome = "reasoning" ->
           [ source |-> "llama",
             health_score_reasoning |-> Rec("<reasoning written by the model>"),
             lifestyle_improvements |-> << "<improvement written by the model>" >>,
             personalized_insights |-> << "<insight written by the model>" >> ]
      [] outcome = "other_json" ->
           [ source |-> "llama", items |-> << "<a JSON list>" >> ]
      [] OTHER ->
           [ source |-> "service fallback",
             health_score_reasoning |->
                 RecArg("Your health score of {}/100 reflects your current lifestyle factors, age, and risk assessments. This score considers your smoking status, exercise habits, alcohol consumption, and other health indicators.",
                        algorithm_results.health_score),
             lifestyle_improvements |->
                 << "Increase physical activity to at least 150 minutes per week",
                    "Maintain a balanced diet rich in fruits and vegetables",
                    "Ensure adequate sleep (7-9 hours nightly)",
                    "Manage stress through relaxation techniques",
                    "Schedule regular health check-ups" >>,
             personalized_insights |->
                 << "Your assessment shows areas for potential improvement",
                    "Focus on the highest-impact lifestyle changes first",
                    "Small, consistent changes can lead to significant health improvements" >> ]

\* lines 53-73: user_data = request.user_data or the sample profile; the
\* call of line 77 follows
PredictCall(t) ==
    /\ http[t].stage = "received"
    /\ user_data' = [user_data EXCEPT ![t] =
           IF http[t].request = NoneV
              \/ \A k \in DOMAIN http[t].request : http[t].request[k] = Absent
           THEN DefaultUserData ELSE http[t].request]
    /\ calls_left' = [calls_left EXCEPT ![t] = 1]
    /\ http' = [http EXCEPT ![t].stage = "assessing"]
    /\ UNCHANGED << settings, LIFE_EXPECTANCY_BASE, clock, pc, locals, result,
                    exc, history >>

\* lines 79-87: the inner try block and its except clause
PredictReason(t) ==
    /\ http[t].stage = "assessing"
    /\ pc[t] = "done"
    /\ IF get_groq_service(settings.GROQ_API_KEY) = "HTTPException"
       THEN http' = [http EXCEPT ![t].stage = "reasoned",
                                 ![t].llm = "not configured",
                                 ![t].llama_reasoning =
               [ source |-> "endpoint fallback",
                 health_score_reasoning |->
                     RecArg("Your health score of {}/100 is based on evidence-based medical algorithms considering your age, lifestyle factors, and risk assessments.",
                            result[t].health_score),
                 lifestyle_improvements |-> Take(result[t].comprehensive_recommendations, 5),
                 personalized_insights |->
                     << "Complete medical assessment completed using validated clinical algorithms." >> ]]
       ELSE \E outcome \in LlmOutcomes :
                http' = [http EXCEPT ![t].stage = "reasoned",
                                     ![t].llm = outcome,
                                     ![t].llama_reasoning =
                                         generate_health_reasoning(outcome, result[t])]
    /\ UNCHANGED << settings, LIFE_EXPECTANCY_BASE, clock, calls_left, pc,
                    user_data, locals, result, exc, history >>

\* lines 90-110 and, for a key that algorithm_results does not have, the
\* except clause of lines 112-117
PredictRespond(t) ==
    /\ http[t].stage = "reasoned"
    /\ LET algorithm_results == result[t]
           assessments == algorithm_results.risk_assessments
           confidence_key(name) ==
               CASE name = "Heart Disease" -> "heart_disease"
                 [] name = "Type 2 Diabetes" -> "type_2_diabetes"
                 [] name = "Cancer (Overall)" -> "cancer_(overall)"
           KeyError ==
               \/ \E i \in 1..Len(assessments) :
                      ~({"disease_name", "confidence_score"} \subseteq DOMAIN assessments[i])
               \/ "current_life_expectancy" \notin DOMAIN algorithm_results.life_expectancy
       IN  http' = [http EXCEPT ![t].stage = "responded", ![t].response =
               IF KeyError
               THEN [status |-> 500, detail |-> "KeyError"]
               ELSE [status |-> 200,
                     predictions |-> assessments,
                     model_version |-> "Evidence-Based Medical Algorithms v2.0 + Llama-4 Reasoning",
                     prediction_date |-> algorithm_results.assessment_date,
                     confidence_scores |->
                         [ i \in 1..Len(assessments) |->
                             [ key |-> confidence_key(assessments[i].disease_name),
                               value |-> [n |-> assessments[i].confidence_score, d |-> 100] ] ],
                     overall_assessment |->
                         [ health_score |-> algorithm_results.health_score,
                           primary_concerns |-> <<>>,
                           positive_factors |-> <<>>,
                           immediate_actions |->
                               Take(algorithm_results.comprehensive_recommendations, 3) ],
                     life_expectancy |-> algorithm_results.life_expectancy,
                     llama_reasoning |-> http[t].llama_reasoning,
                     comprehensive_recommendations |->
                         algorithm_results.comprehensive_recommendations,
                     analysis_notes |->
                         RecArg("Evidence-based medical algorithms with Llama-4 AI reasoning. Life expectancy: {} years",
                                algorithm_results.life_expectancy.current_life_expectancy) ]]
    /\ UNCHANGED << settings, LIFE_EXPECTANCY_BASE, clock, calls_left, pc,
                    user_data, locals, result, exc, history >>

\* lines 112-117 after comprehensive_risk_assessment raised
PredictError(t) ==
    /\ http[t].stage = "assessing"
    /\ pc[t] = "raised"
    /\ http' = [http EXCEPT ![t].stage = "responded", ![t].response =
           [status |-> 500, detail |-> exc[t].type]]
    /\ UNCHANGED << settings, LIFE_EXPECTANCY_BASE, clock, calls_left, pc,
                    user_data, locals, result, exc, history >>

NextPredict ==
    \E t \in Tasks :
        \/ PredictCall(t)
        \/ Call(t)
        \/ Convert(t)
        \/ CalcHeart(t)
        \/ CalcDiabetes(t)
        \/ CalcCancer(t)
        \/ CalcLife(t)
        \/ CalcScore(t)
        \/ GenRecommendations(t)
        \/ Return(t)
        \/ PredictReason(t)
        \/ PredictRespond(t)
        \/ PredictError(t)

\* two requests are in; the key is unset, empty or set. The request bodies:
\* no user_data, an empty one, the second test profile, the same with a sex
\* outside the tables and with an age that is no number
InitPredict ==
    LET PredictRequests ==
            { NoneV,
              [k \in DOMAIN HighRiskSmoker |-> Absent],
              HighRiskSmoker,
              [HighRiskSmoker EXCEPT !["sex"] = StrV(<<"o", "t", "h", "e", "r">>)],
              [HighRiskSmoker EXCEPT !["age"] = StrV(<<"a", "b", "c">>)] }
    IN
    /\ InitCommon
    /\ calls_left = [t \in Tasks |-> 0]
    /\ user_data = [t \in Tasks |-> Unset]
    /\ settings \in { [GROQ_API_KEY |-> key] : key \in { NoneV, StrV(<<>>), StrV(<<"g", "s", "k">>) } }
    /\ \E body \in [Tasks -> PredictRequests] :
           http = [t \in Tasks |-> [stage |-> "received", request |-> body[t],
                                    llm |-> "none", llama_reasoning |-> Unset,
                                    response |-> Unset]]

SpecPredict == InitPredict /\ [][NextPredict]_vars

\* C24: /predict degrades gracefully without the language model. When the
\* assessment returned and the Groq key is not configured or the reasoning
\* call failed, the request is answered with status 200, the predictions, the
\* health score, the life expectancy and the comprehensive recommendations
\* of the answer are those of the assessment, and llama_reasoning is a
\* fallback value; the answer has status 500 only when the assessment raised.
C24_GracefulWithoutLlm ==
    \A t \in Tasks :
        http[t].stage = "responded" =>
            /\ http[t].response.status = 500 => pc[t] = "raised"
            /\ pc[t] = "raised" => http[t].response.status = 500
            /\ (pc[t] = "done" /\ http[t].llm \notin {"reasoning", "other_json"}) =>
                   /\ http[t].response.status = 200
                   /\ http[t].response.predictions = result[t].risk_assessments
                   /\ http[t].response.overall_assessment.health_score = result[t].health_score
                   /\ http[t].response.life_expectancy = result[t].life_expectancy
                   /\ http[t].response.comprehensive_recommendations
                          = result[t].comprehensive_recommendations
                   /\ http[t].response.llama_reasoning.source
                          \in {"endpoint fallback", "service fallback"}
                   /\ http[t].response.llama_reasoning.health_score_reasoning.arg
                          = result[t].health_score

\* one request answered without a key from the endpoint's fallback, the other
\* answered with status 500 after the assessment raised
C24_Witness ==
    /\ ~Truthy(settings.GROQ_API_KEY)
    /\ http[1].stage = "responded" /\ pc[1] = "done"
    /\ http[1].response.status = 200
    /\ http[1].response.llama_reasoning.source = "endpoint fallback"
    /\ Len(http[1].response.llama_reasoning.lifestyle_improvements) = 5
    /\ http[2].stage = "responded" /\ pc[2] = "raised"
    /\ http[2].response.status = 500

\* a request answered with the service's fallback after the Groq API timed
\* out, the key being set
C24_WitnessTimeout ==
    /\ Truthy(settings.GROQ_API_KEY)
    /\ http[1].stage = "responded" /\ http[1].llm = "timeout"
    /\ http[1].response.status = 200
    /\ http[1].response.llama_reasoning.source = "service fallback"

\* C25: the comprehensive recommendation list has exactly 10 entries and is
\* the first 10 of the heart recommendations followed by the diabetes
\* recommendations: the heart list has at least 5 and the diabetes list at
\* least 6 entries, all distinct, so no recommendation given for cancer only,
\* no BMI message, no exercise-start message and no inserted "Quit smoking -
\* single most important health improvement" entry is ever in the list.
C25_HeartThenDiabetesOnly ==
    \A t \in Tasks :
        pc[t] \in {"merged", "done"} =>
            LET heart == heart_risk[t].recommendations
                diabetes == diabetes_risk[t].recommendations
                both == heart \o diabetes
                recs == all_recommendations[t]
            IN  /\ Len(heart) >= 5
                /\ Len(diabetes) >= 6
                /\ \A i, j \in 1..Len(both) : both[i] = both[j] => i = j
                /\ Len(recs) = 10
                /\ recs = SubSeq(both, 1, 10)
                /\ \A i \in 1..Len(recs) :
                       /\ recs[i].text \notin
                              { "Quit smoking - single most important health improvement",
                                "Achieve healthy weight (current BMI: {bmi:.1f})",
                                "Start with 30 minutes of walking 5 days per week" }
                       /\ InSeq(recs[i], cancer_risk[t].recommendations) => InSeq(recs[i], both)

\* an obese smoker who does not exercise: all three lifestyle rules apply,
\* the cancer list has entries of its own, and the ten entries returned are
\* the eight heart entries and the first two diabetes entries
C25_Witness ==
    /\ pc[1] = "done"
    /\ factors[1].smoking
    /\ factors[1].bmi.n >= 30 * factors[1].bmi.d
    /\ factors[1].exercise_frequency = "none"
    /\ Len(heart_risk[1].recommendations) = 8
    /\ \E i \in 1..Len(cancer_risk[1].recommendations) :
           ~InSeq(cancer_risk[1].recommendations[i],
                  heart_risk[1].recommendations \o diabetes_risk[1].recommendations)
    /\ Len(result[1].comprehensive_recommendations) = 10
    /\ result[1].comprehensive_recommendations[9] = diabetes_risk[1].recommendations[1]
    /\ result[1].comprehensive_recommendations[10] = diabetes_risk[1].recommendations[2]

\* C26: in each of the three results returned, risk_category is the band of
\* the reported ten_year_risk under the thresholds of the disease (heart
\* 7.5 and 20, diabetes 10 and 25, cancer 5 and 15; below the first Low,
\* below the second Medium, else High), although the heart category is
\* computed before the cap at 100 and the cancer category after the
\* ethnicity multiplier.
C26_CategoryMatchesReportedRisk ==
    \A t \in Tasks :
        pc[t] = "done" =>
            LET ra == result[t].risk_assessments
                band(risk, low10, high10) ==
                    IF risk.n < (low10 * risk.d) \div 10 THEN "Low"
                    ELSE IF risk.n < (high10 * risk.d) \div 10 THEN "Medium"
                    ELSE "High"
            IN  /\ ra[1].risk_category = band(ra[1].risk_score, 75, 200)
                /\ ra[2].risk_category = band(ra[2].risk_score, 100, 250)
                /\ ra[3].risk_category = band(ra[3].risk_score, 50, 150)

\* a heart risk above 100 % before the cap, reported as 100 and High, next
\* to a cancer risk that the ethnicity multiplier moved into another band
C26_Witness ==
    /\ pc[1] = "done"
    /\ RiskGT(_apply_ethnicity_adjustment(
                  SurvivalRisk(TotalScore(factors[1]), lower(factors[1].sex)),
                  factors[1].ethnicity, lower(factors[1].sex)), 1000)
    /\ result[1].risk_assessments[1].risk_score = [n |-> 1000000, d |-> 10000]
    /\ result[1].risk_assessments[1].risk_category = "High"
    /\ result[1].risk_assessments[3].risk_category
           # _categorize_cancer_risk(
                 RiskMin([n |-> _get_base_cancer_risk(factors[1].age, factors[1].sex)
                                  * CancerMultiplier(factors[1]), d |-> 200000], 800))

\* C27: in the cardiovascular result a recommendation tied to a measured or
\* estimated condition is given whenever the condition holds: systolic
\* pressure > 140 brings the blood-pressure monitoring item and total
\* cholesterol > 240 the heart-healthy-diet/statin item, whatever other risk
\* factors the subject has.
C27_ConditionBringsRecommendation ==
    \A t \in Tasks :
        pc[t] = "heart" =>
            LET f == factors[t]
                total_chol == LabOr(f.total_cholesterol, _estimate_cholesterol(f))
                systolic_bp == LabOr(f.systolic_bp, _estimate_bp(f))
                recs == heart_risk[t].recommendations
            IN  /\ systolic_bp > 140 =>
                       InSeq(Rec("Monitor blood pressure regularly, reduce sodium intake"), recs)
                /\ total_chol > 240 =>
                       InSeq(Rec("Follow heart-healthy diet, consider statin therapy consultation"), recs)

\* C28: the diabetes calculator treats ethnicity consistently: the subject
\* gets the two points for a higher-risk ethnicity in the score if and only if
\* "High-risk ethnicity" is among the diabetes key risk factors.
C28_EthnicityPointsIffKeyFactor ==
    \A t \in Tasks :
        pc[t] = "diabetes" =>
            (_get_ethnicity_risk(factors[t].ethnicity) = 2
                <=> InSeq("High-risk ethnicity", diabetes_risk[t].key_risk_factors))

\* C29: every diabetes result of category High holds both high-risk
\* recommendations, "Discuss metformin therapy with your physician" and
\* "Consider diabetes prevention program enrollment", also at a risk of
\* exactly 25 (a woman with score 7).
C29_HighCategoryHasHighRiskItems ==
    \A t \in Tasks :
        (pc[t] = "diabetes" /\ diabetes_risk[t].risk_category = "High") =>
            /\ InSeq(Rec("Discuss metformin therapy with your physician"),
                     diabetes_risk[t].recommendations)
            /\ InSeq(Rec("Consider diabetes prevention program enrollment"),
                     diabetes_risk[t].recommendations)

\* C30: the potential gains agree with the lifestyle adjustment: applying
\* the intervention an entry names (smoking set to false; alcohol heavy
\* changed to moderate; exercise none or light changed to heavy) and leaving
\* everything else as it is raises lifestyle_adjustment by exactly the gain
\* of the entry.
C30_GainsMatchLifestyleModel ==
    \A t \in Tasks :
        pc[t] = "life" =>
            LET f == factors[t]
                after(key) ==
                    CASE key = "quit_smoking" -> [f EXCEPT !.smoking = FALSE]
                      [] key = "reduce_alcohol" -> [f EXCEPT !.alcohol_consumption = "moderate"]
                      [] key = "increase_exercise" -> [f EXCEPT !.exercise_frequency = "heavy"]
            IN  \A gain \in life_expectancy_data[t].potential_gains :
                    gain.key \in {"quit_smoking", "reduce_alcohol", "increase_exercise"} =>
                        (_calculate_lifestyle_adjustments(after(gain.key))
                           - _calculate_lifestyle_adjustments(f)) * gain.d = 10 * gain.n
====
